---------------------------- MODULE Spec2Model ----------------------------
(***************************************************************************)
(* A model of the man-page search engine: the text pipeline (text.rs), the *)
(* document parser (doc.rs), the crawler (crawl.rs), the index builder,    *)
(* the index file writer and loader (index.rs), the indexing run           *)
(* (bin/index.rs) and the query engine (search.rs).                        *)
(*                                                                         *)
(* Strings are TLA+ strings; a character is a string of length 1.  Files   *)
(* are sequences of bytes (0..255).  f32 quantities are modelled in fixed  *)
(* point, in thousandths, rounding down: a score s stands for s/1000.      *)
(***************************************************************************)
EXTENDS Integers, Sequences, FiniteSets, TLC

(***************************************************************************)
(* Generic helpers                                                         *)
(***************************************************************************)
Min(a, b) == IF a <= b THEN a ELSE b

Max(a, b) == IF a >= b THEN a ELSE b

AbsDiff(a, b) == IF a >= b THEN a - b ELSE b - a

Range(s) == {s[i] : i \in DOMAIN s}

Char(s, i) == SubSeq(s, i, i)

RECURSIVE SeqSum(_)
SeqSum(s) == IF s = <<>> THEN 0 ELSE Head(s) + SeqSum(Tail(s))

RECURSIVE SetSum(_, _)
\* The sum of f[x] over x in S.
SetSum(f, S) ==
    IF S = {} THEN 0
    ELSE LET x == CHOOSE y \in S : TRUE IN f[x] + SetSum(f, S \ {x})

RECURSIVE SetToSeq(_)
\* One enumeration of a finite set.
SetToSeq(S) ==
    IF S = {} THEN <<>>
    ELSE LET x == CHOOSE y \in S : TRUE IN <<x>> \o SetToSeq(S \ {x})

Reverse(s) == [i \in 1..Len(s) |-> s[Len(s) + 1 - i]]

\* All the sequences that enumerate S without repetition.
Perms(S) ==
    {p \in [1..Cardinality(S) -> S] : \A x \in S : \E i \in DOMAIN p : p[i] = x}

\* Iteration orders of a hash map with key set S.  The order of a HashMap is
\* unspecified; the model lets it be one enumeration of S or its reverse.
HashOrders(S) == {SetToSeq(S), Reverse(SetToSeq(S))}

\* The number of occurrences of x in the sequence s.
Count(s, x) == Cardinality({i \in DOMAIN s : s[i] = x})

\* floor(a * b / d) computed without forming a * b.
MulDiv(a, b, d) == (a \div d) * b + ((a % d) * b) \div d

(***************************************************************************)
(* text.rs                                                                 *)
(***************************************************************************)
LowerChars == "abcdefghijklmnopqrstuvwxyz"

UpperChars == "ABCDEFGHIJKLMNOPQRSTUVWXYZ"

DigitChars == "0123456789"

CharsOf(s) == {Char(s, i) : i \in 1..Len(s)}

LowerSet == CharsOf(LowerChars)

UpperSet == CharsOf(UpperChars)

DigitSet == CharsOf(DigitChars)

\* char::is_alphanumeric, on the ASCII range.
is_alphanumeric(c) == c \in LowerSet \cup UpperSet \cup DigitSet

\* char::is_uppercase, on the ASCII range.
is_uppercase(c) == c \in UpperSet

\* char::is_whitespace, on the ASCII range.
is_whitespace(c) == c \in {" ", "\t"}

LowerOf(c) ==
    IF c \in UpperSet
    THEN Char(LowerChars, CHOOSE i \in 1..26 : Char(UpperChars, i) = c)
    ELSE c

RECURSIVE to_lowercase(_)
to_lowercase(s) ==
    IF s = "" THEN "" ELSE LowerOf(Char(s, 1)) \o to_lowercase(Tail(s))

trim_start(s) ==
    LET RECURSIVE go(_)
        go(t) == IF t # "" /\ is_whitespace(Char(t, 1)) THEN go(Tail(t)) ELSE t
    IN go(s)

trim_end(s) ==
    LET RECURSIVE go(_)
        go(t) == IF t # "" /\ is_whitespace(Char(t, Len(t)))
                 THEN go(SubSeq(t, 1, Len(t) - 1)) ELSE t
    IN go(s)

trim(s) == trim_end(trim_start(s))

starts_with(s, p) == Len(p) <= Len(s) /\ SubSeq(s, 1, Len(p)) = p

ends_with(s, p) == Len(p) <= Len(s) /\ SubSeq(s, Len(s) - Len(p) + 1, Len(s)) = p

\* str::split on the characters for which IsSep holds: the pieces between
\* the separators, the empty ones included.
SplitOn(s, seps) ==
    LET RECURSIVE go(_, _, _)
        go(i, cur, acc) ==
            IF i > Len(s) THEN Append(acc, cur)
            ELSE IF Char(s, i) \in seps THEN go(i + 1, "", Append(acc, cur))
            ELSE go(i + 1, cur \o Char(s, i), acc)
    IN go(1, "", <<>>)

\* The position of the first occurrence of pat in s, 0 when there is none
\* (str::find; positions count from 1).
find(s, pat) ==
    LET hits == {i \in 1..(Len(s) - Len(pat) + 1) : SubSeq(s, i, i + Len(pat) - 1) = pat}
    IN IF hits = {} THEN 0 ELSE CHOOSE i \in hits : \A j \in hits : i <= j

StopWords == {
    "a", "an", "the", "and", "or", "but", "if", "then", "else", "when",
    "while", "where", "why", "how", "of", "to", "in", "on", "at", "by",
    "for", "with", "about", "from", "into", "over", "after", "before",
    "does", "between", "through", "during", "without", "within", "is", "are",
    "was", "were", "be", "been", "being", "do", "will", "did", "doing",
    "have", "has", "had", "having", "can", "could", "should", "would", "may",
    "might", "must", "such", "shall", "as", "it", "its", "it's", "this",
    "that", "these", "those", "he", "she", "they", "them", "yes", "their",
    "there", "here", "we", "you", "your", "i", "me", "my", "our", "us",
    "not", "no", "use", "than", "too", "very", "also", "just", "only",
    "even", "more", "most", "some", "any", "each", "other", "used", "call",
    "called", "return", "returns", "value", "set", "get", "new", "see"}

is_stop_word(w) == w \in StopWords

\* The English Snowball stemmer of rust_stemmers, on the vocabulary of the
\* model: the words below change, every other word of the model is its own
\* stem.
StemTable ==
    [w \in {"copy", "files", "directory", "directories", "contents", "lists",
            "copies", "xyzzy", "description", "synopsis", "options", "sets",
            "returned"} |->
        CASE w = "copy" -> "copi"
          [] w = "sets" -> "set"
          [] w = "returned" -> "return"
          [] w = "description" -> "descript"
          [] w = "synopsis" -> "synopsi"
          [] w = "options" -> "option"
          [] w = "copies" -> "copi"
          [] w = "files" -> "file"
          [] w = "directory" -> "directori"
          [] w = "directories" -> "directori"
          [] w = "contents" -> "content"
          [] w = "lists" -> "list"
          [] w = "xyzzy" -> "xyzzi"]

stem(w) == IF w \in DOMAIN StemTable THEN StemTable[w] ELSE w

\* The characters that do not split a text.
IsTokenChar(c) == is_alphanumeric(c) \/ c = "-" \/ c = "_"

\* The pieces of text between the characters that are neither alphanumeric
\* nor '-' nor '_'.
Pieces(text) ==
    LET RECURSIVE go(_, _, _)
        go(i, cur, acc) ==
            IF i > Len(text) THEN Append(acc, cur)
            ELSE IF IsTokenChar(Char(text, i)) THEN go(i + 1, cur \o Char(text, i), acc)
            ELSE go(i + 1, "", Append(acc, cur))
    IN go(1, "", <<>>)

\* The filter of tokenize without the stop-word test.
KeepWordByLength(w) ==
    IF starts_with(w, "-") THEN Len(w) >= 2 ELSE Len(w) > 2

\* The filter of tokenize.
KeepWord(w) ==
    /\ ~is_stop_word(w)
    /\ IF starts_with(w, "-") THEN Len(w) >= 2 ELSE Len(w) > 2

RECURSIVE FilterStem(_)
FilterStem(ps) ==
    IF ps = <<>> THEN <<>>
    ELSE LET w == to_lowercase(Head(ps)) IN
         (IF KeepWord(w) THEN <<stem(w)>> ELSE <<>>) \o FilterStem(Tail(ps))

tokenize(text) == FilterStem(Pieces(text))

\* One row of the rolling Levenshtein table: curr from prev for the i-th
\* character of a.
EditRow(a, b, i, prev) ==
    LET RECURSIVE go(_, _)
        go(j, curr) ==
            IF j > Len(b) THEN curr
            ELSE go(j + 1,
                    Append(curr,
                           IF Char(a, i) = Char(b, j) THEN prev[j]
                           ELSE 1 + Min(Min(prev[j], prev[j + 1]), curr[j])))
    IN go(1, <<i>>)

SeqMin(s) == CHOOSE x \in Range(s) : \A y \in Range(s) : x <= y

\* edit_distance stopping at a row whose minimum reaches max_dist.
edit_distance_at_bound(a, b, max_dist) ==
    LET m == Len(a)
        n == Len(b)
        RECURSIVE rows(_, _)
        rows(i, prev) ==
            IF i > m THEN prev[n + 1]
            ELSE LET curr == EditRow(a, b, i, prev) IN
                 IF SeqMin(curr) >= max_dist THEN max_dist + 1
                 ELSE rows(i + 1, curr)
    IN IF AbsDiff(m, n) > max_dist THEN max_dist + 1
       ELSE rows(1, [j \in 1..(n + 1) |-> j - 1])

\* Rows are indexed from 1: prev[j + 1] is the code's prev[j].
edit_distance(a, b, max_dist) ==
    LET m == Len(a)
        n == Len(b)
        RECURSIVE rows(_, _)
        rows(i, prev) ==
            IF i > m THEN prev[n + 1]
            ELSE LET curr == EditRow(a, b, i, prev) IN
                 IF SeqMin(curr) > max_dist THEN max_dist + 1
                 ELSE rows(i + 1, curr)
    IN IF AbsDiff(m, n) > max_dist THEN max_dist + 1
       ELSE rows(1, [j \in 1..(n + 1) |-> j - 1])

(***************************************************************************)
(* doc.rs                                                                  *)
(***************************************************************************)
\* SectionState::new.
SectionStateNew == [current |-> "Body", name_lines_seen |-> 0]

is_header(trimmed) ==
    /\ Len(trimmed) >= 2
    /\ \A i \in 1..Len(trimmed) :
           LET c == Char(trimmed, i) IN
           is_uppercase(c) \/ is_whitespace(c) \/ c = "_" \/ c = "-"
    /\ \E i \in 1..Len(trimmed) : is_uppercase(Char(trimmed, i))

\* SectionState::advance: the state after the line, and the effective
\* section it returns (field eff).
advance(st, line) ==
    LET trimmed == trim(line) IN
    IF is_header(trimmed)
    THEN LET cur == IF trimmed = "NAME" THEN "Name"
                    ELSE IF starts_with(trimmed, "SYNOPSIS") THEN "Synopsis"
                    ELSE "Body"
         IN [current |-> cur, name_lines_seen |-> 0, eff |-> cur]
    ELSE IF st.current = "Name"
    THEN IF trimmed = ""
         THEN [current |-> "Name", name_lines_seen |-> st.name_lines_seen,
               eff |-> "Name"]
         ELSE [current |-> "Name", name_lines_seen |-> st.name_lines_seen + 1,
               eff |-> IF st.name_lines_seen + 1 > 1 THEN "Body" ELSE "Name"]
    ELSE [current |-> st.current, name_lines_seen |-> st.name_lines_seen,
          eff |-> st.current]

VIP_COMMANDS == {
    "ls", "cp", "mv", "rm", "mkdir", "rmdir", "cd", "pwd", "cat", "echo",
    "chmod", "chown", "tar", "grep", "find", "awk", "sed", "kill", "ps",
    "top", "df", "du", "mount", "umount", "ip", "ping", "ssh", "bash", "sh",
    "sudo", "su", "apt", "pacman", "systemctl", "journalctl", "man", "info",
    "less", "more", "nano", "vim", "git", "curl", "wget", "rsync", "ln",
    "stat", "touch", "tail", "head", "sort", "uniq", "wc", "read", "gzip",
    "bzip2", "unzip", "zip", "chgrp", "date", "cal", "whoami"}

\* The part of fname before its first '.', lowercased.
FileBase(fname) == to_lowercase(Head(SplitOn(fname, {"."})))

\* The multiplier in thousandths.
doc_type_multiplier(fname) ==
    IF ends_with(fname, "const") \/ ends_with(fname, "type") \/ ends_with(fname, "head")
    THEN 100
    ELSE LET parts == SplitOn(fname, {"."})
             last == parts[Len(parts)]
             c == IF last = "" THEN "" ELSE Char(last, 1)
             section_mult ==
                 CASE c = "1" -> 4000
                   [] c = "8" -> 2500
                   [] c = "5" -> 1200
                   [] c \in {"2", "3"} -> 800
                   [] c \in {"4", "6", "7"} -> 600
                   [] OTHER -> 800
             vip_mult == IF FileBase(fname) \in VIP_COMMANDS THEN 5 ELSE 1
         IN section_mult * vip_mult

RECURSIVE TrimStartDashes(_)
\* trim_start_matches([' ', '-', en dash]), on the ASCII range.
TrimStartDashes(s) ==
    IF s # "" /\ Char(s, 1) \in {" ", "-"} THEN TrimStartDashes(Tail(s)) ELSE s

RECURSIVE NamesOf(_)
\* The pieces trimmed and lowercased, the empty ones dropped.
NamesOf(ps) ==
    IF ps = <<>> THEN <<>>
    ELSE LET n == to_lowercase(trim(Head(ps))) IN
         (IF n = "" THEN <<>> ELSE <<n>>) \o NamesOf(Tail(ps))

\* parse_name_line: the command names and the description.  Only the ASCII
\* separator " - " is modelled.
parse_name_line(line) ==
    LET pos == find(line, " - ") IN
    IF pos # 0
    THEN [names |-> NamesOf(SplitOn(SubSeq(line, 1, pos - 1), {",", ";"})),
          desc |-> trim(TrimStartDashes(SubSeq(line, pos, Len(line))))]
    ELSE [names |-> NamesOf(SplitOn(line, {",", ";"})), desc |-> ""]

\* A term-frequency map with the tokens counted in.
TfAdd(tf, tokens) ==
    [t \in DOMAIN tf \cup Range(tokens) |->
        (IF t \in DOMAIN tf THEN tf[t] ELSE 0) + Count(tokens, t)]

EmptyMap == [t \in {} |-> 0]

\* The state of parse_doc before the first line.
ParseStart ==
    [state |-> SectionStateNew, cmd_name |-> "", name_desc_raw |-> "",
     found_name_line |-> FALSE,
     name_desc_tf |-> EmptyMap, name_desc_len |-> 0,
     synopsis_tf |-> EmptyMap, synopsis_len |-> 0,
     body_tf |-> EmptyMap, body_len |-> 0]

\* The body of the loop taking every non-empty line that advance gives to
\* the Name section as the NAME line, whatever name_lines_seen is.
ParseLineAnyCount(acc, line) ==
    LET a == advance(acc.state, line)
        st == [current |-> a.current, name_lines_seen |-> a.name_lines_seen]
        trimmed == trim(line)
    IN
    IF a.eff = "Name" /\ trimmed # "" /\ ~acc.found_name_line
    THEN LET nd == parse_name_line(trimmed)
             tokens == tokenize(nd.desc)
         IN [acc EXCEPT !.state = st,
                        !.cmd_name = IF nd.names # <<>> THEN stem(nd.names[1]) ELSE @,
                        !.name_desc_raw = nd.desc,
                        !.name_desc_len = @ + Len(tokens),
                        !.name_desc_tf = TfAdd(@, tokens),
                        !.found_name_line = TRUE]
    ELSE LET tokens == tokenize(line) IN
         IF a.eff = "Synopsis"
         THEN [acc EXCEPT !.state = st,
                          !.synopsis_len = @ + Len(tokens),
                          !.synopsis_tf = TfAdd(@, tokens)]
         ELSE [acc EXCEPT !.state = st,
                          !.body_len = @ + Len(tokens),
                          !.body_tf = TfAdd(@, tokens)]

\* The body of the loop never setting found_name_line.
ParseLineFlagNeverSet(acc, line) ==
    LET a == advance(acc.state, line)
        st == [current |-> a.current, name_lines_seen |-> a.name_lines_seen]
        trimmed == trim(line)
    IN
    IF a.eff = "Name" /\ trimmed # "" /\ st.name_lines_seen = 1 /\ ~acc.found_name_line
    THEN LET nd == parse_name_line(trimmed)
             tokens == tokenize(nd.desc)
         IN [acc EXCEPT !.state = st,
                        !.cmd_name = IF nd.names # <<>> THEN stem(nd.names[1]) ELSE @,
                        !.name_desc_raw = nd.desc,
                        !.name_desc_len = @ + Len(tokens),
                        !.name_desc_tf = TfAdd(@, tokens)]
    ELSE LET tokens == tokenize(line) IN
         IF a.eff = "Synopsis"
         THEN [acc EXCEPT !.state = st,
                          !.synopsis_len = @ + Len(tokens),
                          !.synopsis_tf = TfAdd(@, tokens)]
         ELSE [acc EXCEPT !.state = st,
                          !.body_len = @ + Len(tokens),
                          !.body_tf = TfAdd(@, tokens)]

\* The body of the loop over the lines of parse_doc.
ParseLine(acc, line) ==
    LET a == advance(acc.state, line)
        st == [current |-> a.current, name_lines_seen |-> a.name_lines_seen]
        trimmed == trim(line)
    IN
    IF a.eff = "Name" /\ trimmed # "" /\ st.name_lines_seen = 1 /\ ~acc.found_name_line
    THEN LET nd == parse_name_line(trimmed)
             tokens == tokenize(nd.desc)
         IN [acc EXCEPT !.state = st,
                        !.cmd_name = IF nd.names # <<>> THEN stem(nd.names[1]) ELSE @,
                        !.name_desc_raw = nd.desc,
                        !.name_desc_len = @ + Len(tokens),
                        !.name_desc_tf = TfAdd(@, tokens),
                        !.found_name_line = TRUE]
    ELSE LET tokens == tokenize(line) IN
         IF a.eff = "Synopsis"
         THEN [acc EXCEPT !.state = st,
                          !.synopsis_len = @ + Len(tokens),
                          !.synopsis_tf = TfAdd(@, tokens)]
         ELSE [acc EXCEPT !.state = st,
                          !.body_len = @ + Len(tokens),
                          !.body_tf = TfAdd(@, tokens)]

RECURSIVE ParseLines(_, _)
ParseLines(acc, lines) ==
    IF lines = <<>> THEN acc ELSE ParseLines(ParseLine(acc, Head(lines)), Tail(lines))

NoDoc == [none |-> TRUE]

\* The end of parse_doc returning None also for a document left without a
\* command name.
ParseFinishNamed(page, acc, base) ==
    IF acc.name_desc_len + acc.synopsis_len + acc.body_len = 0 THEN NoDoc
    ELSE IF acc.cmd_name = "" /\ Len(base) <= 1 THEN NoDoc
    ELSE [fname |-> page.fname,
          cmd_name |-> IF acc.cmd_name = "" THEN stem(base) ELSE acc.cmd_name,
          name_desc_raw |-> acc.name_desc_raw,
          name_desc_tf |-> acc.name_desc_tf,
          name_desc_len |-> acc.name_desc_len,
          synopsis_tf |-> acc.synopsis_tf, synopsis_len |-> acc.synopsis_len,
          body_tf |-> acc.body_tf, body_len |-> acc.body_len]

\* The end of parse_doc: the fallback command name and the empty check.
ParseFinish(page, acc, base) ==
    IF acc.name_desc_len + acc.synopsis_len + acc.body_len = 0 THEN NoDoc
    ELSE [fname |-> page.fname,
          cmd_name |-> IF acc.cmd_name = ""
                       THEN (IF Len(base) > 1 THEN stem(base) ELSE "")
                       ELSE acc.cmd_name,
          name_desc_raw |-> acc.name_desc_raw,
          name_desc_tf |-> acc.name_desc_tf,
          name_desc_len |-> acc.name_desc_len,
          synopsis_tf |-> acc.synopsis_tf, synopsis_len |-> acc.synopsis_len,
          body_tf |-> acc.body_tf, body_len |-> acc.body_len]

\* parse_doc of a page: a file name, whether the formatter rendered it, and
\* the lines of the rendered text.  NoDoc stands for None.
parse_doc(page) ==
    IF ~page.rendered THEN NoDoc
    ELSE ParseFinish(page, ParseLines(ParseStart, page.lines), FileBase(page.fname))

(***************************************************************************)
(* crawl.rs                                                                *)
(***************************************************************************)
\* The terms of a document that crawl counts: the keys of the three maps
\* and the command name when it is not empty.
DocTermSet(doc) ==
    DOMAIN doc.name_desc_tf \cup DOMAIN doc.synopsis_tf \cup DOMAIN doc.body_tf
        \cup (IF doc.cmd_name # "" THEN {doc.cmd_name} ELSE {})

\* The state of crawl before the first file.
CrawlStart ==
    [global_df |-> EmptyMap, total_docs |-> 0,
     sum_desc |-> 0, sum_synopsis |-> 0, sum_body |-> 0]

\* The statistics after one more parsed document, a term counted once for
\* every field it is in.
CrawlCountPerField(cs, doc) ==
    [global_df |->
        [t \in DOMAIN cs.global_df \cup DocTermSet(doc) |->
            (IF t \in DOMAIN cs.global_df THEN cs.global_df[t] ELSE 0)
                + (IF t \in DOMAIN doc.name_desc_tf THEN 1 ELSE 0)
                + (IF t \in DOMAIN doc.synopsis_tf THEN 1 ELSE 0)
                + (IF t \in DOMAIN doc.body_tf THEN 1 ELSE 0)
                + (IF doc.cmd_name # "" /\ t = doc.cmd_name THEN 1 ELSE 0)],
     total_docs |-> cs.total_docs + 1,
     sum_desc |-> cs.sum_desc + doc.name_desc_len,
     sum_synopsis |-> cs.sum_synopsis + doc.synopsis_len,
     sum_body |-> cs.sum_body + doc.body_len]

\* The statistics after one more parsed document.
CrawlCount(cs, doc) ==
    [global_df |->
        [t \in DOMAIN cs.global_df \cup DocTermSet(doc) |->
            (IF t \in DOMAIN cs.global_df THEN cs.global_df[t] ELSE 0)
                + (IF t \in DocTermSet(doc) THEN 1 ELSE 0)],
     total_docs |-> cs.total_docs + 1,
     sum_desc |-> cs.sum_desc + doc.name_desc_len,
     sum_synopsis |-> cs.sum_synopsis + doc.synopsis_len,
     sum_body |-> cs.sum_body + doc.body_len]

\* The record crawl writes to the temp file for a document.
TempRecord(doc) ==
    [fname |-> doc.fname, cmd_name |-> doc.cmd_name,
     desc_len |-> doc.name_desc_len, synopsis_len |-> doc.synopsis_len,
     body_len |-> doc.body_len, desc_tf |-> doc.name_desc_tf,
     synopsis_tf |-> doc.synopsis_tf, body_tf |-> doc.body_tf,
     name_desc_raw |-> doc.name_desc_raw]

\* CrawlStats: the averages are in thousandths.
CrawlStats(cs) ==
    LET n == Max(cs.total_docs, 1) IN
    [total_docs |-> cs.total_docs, global_df |-> cs.global_df,
     avg_desc_len |-> (cs.sum_desc * 1000) \div n,
     avg_synopsis_len |-> (cs.sum_synopsis * 1000) \div n,
     avg_body_len |-> (cs.sum_body * 1000) \div n]

(***************************************************************************)
(* io_util.rs                                                              *)
(***************************************************************************)
\* The position of the character c in the string s.
IndexIn(s, c) == CHOOSE i \in 1..Len(s) : Char(s, i) = c

\* Punctuation of the model's texts, with its ASCII codes.
PunctChars == " ,-.;_"

PunctCodes == <<32, 44, 45, 46, 59, 95>>

\* The ASCII code of a character of the model's texts.
ByteOfChar ==
    [c \in LowerSet \cup UpperSet \cup DigitSet \cup CharsOf(PunctChars) |->
        IF c \in LowerSet THEN 96 + IndexIn(LowerChars, c)
        ELSE IF c \in UpperSet THEN 64 + IndexIn(UpperChars, c)
        ELSE IF c \in DigitSet THEN 47 + IndexIn(DigitChars, c)
        ELSE PunctCodes[IndexIn(PunctChars, c)]]

\* String::from_utf8_lossy on one byte: a byte that is no character of the
\* model's texts is shown as "?".
CharOfByte(b) ==
    IF b >= 97 /\ b <= 122 THEN Char(LowerChars, b - 96)
    ELSE IF b >= 65 /\ b <= 90 THEN Char(UpperChars, b - 64)
    ELSE IF b >= 48 /\ b <= 57 THEN Char(DigitChars, b - 47)
    ELSE IF \E i \in 1..Len(PunctCodes) : PunctCodes[i] = b
    THEN Char(PunctChars, CHOOSE i \in 1..Len(PunctCodes) : PunctCodes[i] = b)
    ELSE "?"

RECURSIVE StrBytes(_)
\* str::as_bytes.
StrBytes(s) == IF s = "" THEN <<>> ELSE <<ByteOfChar[Char(s, 1)]>> \o StrBytes(Tail(s))

\* The largest integer of the model: a decoded integer beyond it is held at it.
Huge == 2147483647

\* u32::to_le_bytes.
write_u32(v) ==
    <<v % 256, (v \div 256) % 256, (v \div 65536) % 256, (v \div 16777216) % 256>>

\* f32::to_le_bytes: the four bytes of the fixed-point numeral.
write_f32(v) == write_u32(v)

\* u64::to_le_bytes.
write_u64(v) == write_u32(v) \o <<0, 0, 0, 0>>

write_str(s) == write_u32(Len(s)) \o StrBytes(s)

\* u32::from_le_bytes of the four bytes of buf after position pos.
U32At(buf, pos) ==
    IF buf[pos + 4] >= 128 THEN Huge
    ELSE buf[pos + 1] + 256 * buf[pos + 2] + 65536 * buf[pos + 3] + 16777216 * buf[pos + 4]

\* u64::from_le_bytes of the eight bytes of buf after position pos.
U64At(buf, pos) ==
    IF \E k \in 5..8 : buf[pos + k] # 0 THEN Huge ELSE U32At(buf, pos)

\* A reader is a buffer and the number of bytes read so far.  The read
\* functions return ok (FALSE for an UnexpectedEof error), the value and the
\* new position.
read_u32(buf, pos) ==
    IF pos + 4 > Len(buf) THEN [ok |-> FALSE, val |-> 0, pos |-> pos]
    ELSE [ok |-> TRUE, val |-> U32At(buf, pos), pos |-> pos + 4]

read_f32(buf, pos) == read_u32(buf, pos)

read_u64(buf, pos) ==
    IF pos + 8 > Len(buf) THEN [ok |-> FALSE, val |-> 0, pos |-> pos]
    ELSE [ok |-> TRUE, val |-> U64At(buf, pos), pos |-> pos + 8]

RECURSIVE BytesStr(_, _, _)
\* The string of the n bytes of buf after position pos.
BytesStr(buf, pos, n) ==
    IF n = 0 THEN "" ELSE CharOfByte(buf[pos + 1]) \o BytesStr(buf, pos + 1, n - 1)

read_str(buf, pos) ==
    LET l == read_u32(buf, pos) IN
    IF ~l.ok THEN [ok |-> FALSE, val |-> "", pos |-> pos]
    ELSE IF l.val > Len(buf) - l.pos THEN [ok |-> FALSE, val |-> "", pos |-> l.pos]
    ELSE [ok |-> TRUE, val |-> BytesStr(buf, l.pos, l.val), pos |-> l.pos + l.val]

(***************************************************************************)
(* index.rs: build_index                                                   *)
(***************************************************************************)
\* 1000 * ln(k) for k = 1..32, rounded.
LnTable ==
    <<0, 693, 1099, 1386, 1609, 1792, 1946, 2079, 2197, 2303, 2398, 2485, 2565,
      2639, 2708, 2773, 2833, 2890, 2944, 2996, 3045, 3091, 3135, 3178, 3219,
      3258, 3296, 3332, 3367, 3401, 3434, 3466>>

\* 1000 * ln((n - df + 0.5) / (df + 0.5) + 1), which is
\* 1000 * (ln(2n + 2) - ln(2df + 1)).
LnIdf(n, df) == LnTable[2 * n + 2] - LnTable[2 * df + 1]

BM25_K1 == 1500

BM25_B == 750

WEIGHT_CMD_NAME == 30000

WEIGHT_NAME_DESC == 12000

WEIGHT_SYNOPSIS == 2500

WEIGHT_BODY == 1000

\* bm25_term with the idf ln((n - df + 0.5) / (df + 0.5)), without the + 1.
bm25_term_plain_idf(tf, dl, avgdl, n, df) ==
    IF tf = 0 \/ df = 0 \/ n = 0 THEN 0
    ELSE LET idf == Max(LnTable[2 * n - 2 * df + 1] - LnTable[2 * df + 1], 0)
             norm == (1000 - BM25_B) + (BM25_B * dl * 1000) \div avgdl
             ntf == (tf * (BM25_K1 + 1000) * 1000)
                        \div (tf * 1000 + (BM25_K1 * norm) \div 1000)
         IN (idf * ntf) \div 1000

\* bm25_term: tf, dl, n and df are whole numbers, avgdl and the constants are
\* in thousandths, and so is the result.
bm25_term(tf, dl, avgdl, n, df) ==
    IF tf = 0 \/ df = 0 \/ n = 0 THEN 0
    ELSE LET idf == Max(LnIdf(n, df), 0)
             norm == (1000 - BM25_B) + (BM25_B * dl * 1000) \div avgdl
             ntf == (tf * (BM25_K1 + 1000) * 1000)
                        \div (tf * 1000 + (BM25_K1 * norm) \div 1000)
         IN (idf * ntf) \div 1000

\* The terms build_index scores for a record: the keys of its three maps and
\* its command name, empty or not.
all_terms(rec) ==
    DOMAIN rec.desc_tf \cup DOMAIN rec.synopsis_tf \cup DOMAIN rec.body_tf
        \cup {rec.cmd_name}

TfGet(tf, term) == IF term \in DOMAIN tf THEN tf[term] ELSE 0

\* The combined score build_index computes for a term and a record.
TermScore(term, rec, stats) ==
    LET n == stats.total_docs
        df == IF term \in DOMAIN stats.global_df THEN stats.global_df[term] ELSE 1
        cmd_score ==
            IF term = rec.cmd_name /\ rec.cmd_name # ""
            THEN (bm25_term(1, 1, 1000, n, df) * WEIGHT_CMD_NAME) \div 1000
            ELSE 0
        desc_score ==
            IF rec.desc_len > 0
            THEN (bm25_term(TfGet(rec.desc_tf, term), rec.desc_len,
                            Max(stats.avg_desc_len, 1000), n, df)
                      * WEIGHT_NAME_DESC) \div 1000
            ELSE 0
        syn_score ==
            IF rec.synopsis_len > 0
            THEN (bm25_term(TfGet(rec.synopsis_tf, term), rec.synopsis_len,
                            Max(stats.avg_synopsis_len, 1000), n, df)
                      * WEIGHT_SYNOPSIS) \div 1000
            ELSE 0
        body_score ==
            IF rec.body_len > 0
            THEN (bm25_term(TfGet(rec.body_tf, term), rec.body_len,
                            Max(stats.avg_body_len, 1000), n, df)
                      * WEIGHT_BODY) \div 1000
            ELSE 0
    IN MulDiv(cmd_score + desc_score + syn_score + body_score,
              doc_type_multiplier(rec.fname), 1000)

\* The test with >= for >.
PostingKeptZero(score) == score >= 0

\* The test under which build_index stores a posting.
PostingKept(score) == score > 0

\* sort_by left out: the pairs stay in the order they came in.
SortByScoreOmitted(ps) == ps

\* The postings <<doc_id, score>> of a sequence in descending order of
\* score, equal scores in their order in ps (slice::sort_by is stable).
RECURSIVE SortByScore(_)
SortByScore(ps) ==
    IF ps = <<>> THEN <<>>
    ELSE LET rest == SortByScore(Tail(ps))
             h == Head(ps)
             k == Cardinality({i \in DOMAIN rest : rest[i][2] > h[2]})
         IN SubSeq(rest, 1, k) \o <<h>> \o SubSeq(rest, k + 1, Len(rest))

\* The postings of a term before the sort: one per record, in id order,
\* whose terms include it and whose score passes the test.
RECURSIVE PostingsFrom(_, _, _, _)
PostingsFrom(term, temp, stats, i) ==
    IF i > Len(temp) THEN <<>>
    ELSE (IF term \in all_terms(temp[i]) /\ PostingKept(TermScore(term, temp[i], stats))
          THEN <<<<i - 1, TermScore(term, temp[i], stats)>>>>
          ELSE <<>>) \o PostingsFrom(term, temp, stats, i + 1)

\* The ids, in order, of the records whose command name is c.
RECURSIVE CmdIds(_, _, _)
CmdIds(temp, c, i) ==
    IF i > Len(temp) THEN <<>>
    ELSE (IF temp[i].cmd_name = c THEN <<i - 1>> ELSE <<>>) \o CmdIds(temp, c, i + 1)

\* The ids, in order, of the records whose description has the term t.
RECURSIVE DescIds(_, _, _)
DescIds(temp, t, i) ==
    IF i > Len(temp) THEN <<>>
    ELSE (IF t \in DOMAIN temp[i].desc_tf THEN <<i - 1>> ELSE <<>>)
             \o DescIds(temp, t, i + 1)

\* build_index on the records of the temp file and the crawl statistics.
build_index(temp, stats) ==
    LET ids == 1..Len(temp)
        terms == UNION {all_terms(temp[i]) : i \in ids}
        stored == {t \in terms : PostingsFrom(t, temp, stats, 1) # <<>>}
        cmds == {temp[i].cmd_name : i \in ids} \ {""}
        descs == UNION {DOMAIN temp[i].desc_tf : i \in ids}
    IN [doc_map |-> [i \in ids |-> temp[i].fname],
        cmd_names |-> [i \in ids |-> temp[i].cmd_name],
        name_descs |-> [i \in ids |-> temp[i].name_desc_raw],
        inverted |-> [t \in stored |-> SortByScore(PostingsFrom(t, temp, stats, 1))],
        cmd_name_index |->
            [c \in cmds |-> CmdIds(temp, c, 1)],
        desc_index |->
            [t \in descs |-> DescIds(temp, t, 1)]]

(***************************************************************************)
(* index.rs: save_index, load_index, get_postings                          *)
(***************************************************************************)
RECURSIVE Concat(_)
\* The sequences of a sequence, joined.
Concat(ss) == IF ss = <<>> THEN <<>> ELSE Head(ss) \o Concat(Tail(ss))

\* Step 1 of save_index: the document count and the three strings of every
\* document.
SaveDocsBytes(index) ==
    write_u32(Len(index.doc_map))
        \o Concat([i \in 1..Len(index.doc_map) |->
                      write_str(index.doc_map[i]) \o write_str(index.cmd_names[i])
                          \o write_str(index.name_descs[i])])

\* The bytes of one posting list.
PostingBytes(postings) ==
    Concat([k \in 1..Len(postings) |->
               write_u32(postings[k][1]) \o write_f32(postings[k][2])])

\* Step 2 of save_index: the posting lists in the order the map yields its
\* words.
SavePostingsBytes(index, order) ==
    Concat([k \in 1..Len(order) |-> PostingBytes(index.inverted[order[k]])])

\* The positions counted from the start of the postings instead of the
\* start of the file.
DictEntriesFromZero(index, order, start) ==
    [k \in 1..Len(order) |->
        <<order[k],
          8 * SeqSum([j \in 1..(k - 1) |-> Len(index.inverted[order[j]])]),
          Len(index.inverted[order[k]])>>]

\* The vector dict of save_index: for every word, in order, its name, the
\* stream position at which its postings start and their number, the
\* postings starting at position start.
DictEntries(index, order, start) ==
    [k \in 1..Len(order) |->
        <<order[k],
          start + 8 * SeqSum([j \in 1..(k - 1) |-> Len(index.inverted[order[j]])]),
          Len(index.inverted[order[k]])>>]

\* Step 3 of save_index: the dictionary.
SaveDictBytes(dict) ==
    write_u32(Len(dict))
        \o Concat([k \in 1..Len(dict) |->
                      write_str(dict[k][1]) \o write_u64(dict[k][2])
                          \o write_u32(dict[k][3])])

\* Step 4 of save_index: the footer.
SaveFooterBytes(dict_offset) == write_u64(dict_offset)

\* The whole file save_index writes, the words of index.inverted taken in
\* the given order.
save_index(index, order) ==
    LET docs == SaveDocsBytes(index)
        posts == SavePostingsBytes(index, order)
    IN docs \o posts \o SaveDictBytes(DictEntries(index, order, Len(docs)))
           \o SaveFooterBytes(Len(docs) + Len(posts))

\* The loop of load_index over the documents: the reader is at pos, i
\* documents are read.  ok is FALSE when a read fails.
RECURSIVE LoadDocs(_, _, _, _, _)
LoadDocs(buf, pos, i, doc_count, acc) ==
    IF i >= doc_count THEN [ok |-> TRUE, docs |-> acc]
    ELSE LET fname == read_str(buf, pos)
             cmd_name == read_str(buf, fname.pos)
             name_desc == read_str(buf, cmd_name.pos)
         IN IF ~fname.ok \/ ~cmd_name.ok \/ ~name_desc.ok
            THEN [ok |-> FALSE, docs |-> acc]
            ELSE LoadDocs(buf, name_desc.pos, i + 1, doc_count,
                          Append(acc, [fname |-> fname.val, cmd_name |-> cmd_name.val,
                                       name_desc |-> name_desc.val]))

\* The loop of load_index over the dictionary entries; a word read twice
\* keeps its last entry.
RECURSIVE LoadDict(_, _, _, _, _)
LoadDict(buf, pos, i, dict_len, acc) ==
    IF i >= dict_len THEN [ok |-> TRUE, dict |-> acc]
    ELSE LET word == read_str(buf, pos)
             offset == read_u64(buf, word.pos)
             num == read_u32(buf, offset.pos)
         IN IF ~word.ok \/ ~offset.ok \/ ~num.ok
            THEN [ok |-> FALSE, dict |-> acc]
            ELSE LoadDict(buf, num.pos, i + 1, dict_len,
                          [w \in DOMAIN acc \cup {word.val} |->
                              IF w = word.val THEN <<offset.val, num.val>> ELSE acc[w]])

\* The description index load_index rebuilds: for every token of every
\* description, in order, the document id.
RebuildDescIndex(name_descs) ==
    LET toks == [i \in 1..Len(name_descs) |-> tokenize(name_descs[i])]
        terms == UNION {Range(toks[i]) : i \in 1..Len(name_descs)}
    IN [t \in terms |->
           Concat([i \in 1..Len(name_descs) |->
                      [k \in 1..Count(toks[i], t) |-> i - 1]])]

\* The command name index: for every non-empty command name the ids of its
\* documents.
CmdNameIndex(cmd_names) ==
    [c \in Range(cmd_names) \ {""} |->
        LET RECURSIVE go(_)
            go(i) == IF i > Len(cmd_names) THEN <<>>
                     ELSE (IF cmd_names[i] = c THEN <<i - 1>> ELSE <<>>) \o go(i + 1)
        IN go(1)]

NoIndex == [none |-> TRUE]

\* load_index on the bytes of a file.  outcome is "ok" with the MmapIndex,
\* "err" for a returned error, "panic" for a slice out of range.
load_index(file) ==
    LET len == Len(file) IN
    IF len < 8 THEN [outcome |-> "err", index |-> NoIndex]
    ELSE
    LET dict_offset == U64At(file, len - 8) IN
    IF dict_offset > len THEN [outcome |-> "panic", index |-> NoIndex]
    ELSE
    LET head == SubSeq(file, 1, dict_offset)
        doc_count == read_u32(head, 0)
    IN
    IF ~doc_count.ok THEN [outcome |-> "err", index |-> NoIndex]
    ELSE
    LET docs == LoadDocs(head, doc_count.pos, 0, doc_count.val, <<>>) IN
    IF ~docs.ok THEN [outcome |-> "err", index |-> NoIndex]
    ELSE IF dict_offset > len - 8 THEN [outcome |-> "panic", index |-> NoIndex]
    ELSE
    LET r_dict == SubSeq(file, dict_offset + 1, len - 8)
        dict_len == read_u32(r_dict, 0)
    IN
    IF ~dict_len.ok THEN [outcome |-> "err", index |-> NoIndex]
    ELSE
    LET dict == LoadDict(r_dict, dict_len.pos, 0, dict_len.val, [w \in {} |-> <<0, 0>>]) IN
    IF ~dict.ok THEN [outcome |-> "err", index |-> NoIndex]
    ELSE
    LET n == Len(docs.docs)
        name_descs == [i \in 1..n |-> docs.docs[i].name_desc]
        cmd_names == [i \in 1..n |-> docs.docs[i].cmd_name]
    IN [outcome |-> "ok",
        index |-> [doc_map |-> [i \in 1..n |-> docs.docs[i].fname],
                   cmd_names |-> cmd_names,
                   name_descs |-> name_descs,
                   inverted_dict |-> dict.dict,
                   cmd_name_index |-> CmdNameIndex(cmd_names),
                   desc_index |-> RebuildDescIndex(name_descs),
                   mmap |-> file]]

\* Whether get_postings stays inside the mapped file for a dictionary entry.
InMap(midx, entry) ==
    /\ entry[2] <= Len(midx.mmap) \div 8
    /\ entry[1] <= Len(midx.mmap) - 8 * entry[2]

\* MmapIndex::get_postings.  outcome is "none" for a word not in the
\* dictionary, "some" with the postings, "panic" for a read outside the
\* mapped file.
get_postings(midx, word) ==
    IF word \notin DOMAIN midx.inverted_dict
    THEN [outcome |-> "none", postings |-> <<>>]
    ELSE LET e == midx.inverted_dict[word] IN
         IF e[2] > 0 /\ ~InMap(midx, e)
         THEN [outcome |-> "panic", postings |-> <<>>]
         ELSE [outcome |-> "some",
               postings |-> [k \in 1..e[2] |->
                                <<U32At(midx.mmap, e[1] + 8 * (k - 1)),
                                  U32At(midx.mmap, e[1] + 8 * (k - 1) + 4)>>]]

(***************************************************************************)
(* search.rs                                                               *)
(***************************************************************************)
SEMANTIC_RERANK_N == 50

SEMANTIC_WEIGHT == 15000

PREFIX_MIN_LEN == 4

PREFIX_MIN_IDF == 1000

FUZZY_MIN_LEN == 4

\* The floor of query_idf, 0.01.
IDF_FLOOR == 10

\* query_idf, in thousandths: df is the posting count of the token in the
\* dictionary, 1 when the token is not in it.
query_idf(token, midx, n) ==
    LET df == IF token \in DOMAIN midx.inverted_dict
              THEN midx.inverted_dict[token][2] ELSE 1
    IN Max(LnIdf(n, df), IDF_FLOOR)

\* The map token_idfs of search: every distinct query token with its idf.
TokenIdfs(tokens, midx) ==
    [t \in Range(tokens) |-> query_idf(t, midx, Len(midx.doc_map))]

\* c^e in thousandths, for c in thousandths (f32::powf with a whole exponent).
RECURSIVE PowK(_, _)
PowK(c, e) == IF e = 0 THEN 1000 ELSE (PowK(c, e - 1) * c) \div 1000

\* The element at index k (from 0) of the values of f sorted ascending.
KthSmallest(f, k) ==
    CHOOSE v \in Range(f) :
        /\ Cardinality({t \in DOMAIN f : f[t] < v}) <= k
        /\ Cardinality({t \in DOMAIN f : f[t] <= v}) > k

semantic_desc_score(query_tokens, token_idfs, name_desc) ==
    IF name_desc = "" \/ query_tokens = {} THEN 0
    ELSE
    LET desc_tokens == Range(tokenize(name_desc)) IN
    IF desc_tokens = {} THEN 0
    ELSE
    LET n == Cardinality(DOMAIN token_idfs)
        median_idf == IF n = 0 THEN 0 ELSE KthSmallest(token_idfs, n \div 2)
    IN
    IF n > 1 /\ \E tok \in DOMAIN token_idfs :
                    token_idfs[tok] >= median_idf /\ tok \notin desc_tokens
    THEN 0
    ELSE
    LET idf_of(qt) == IF qt \in DOMAIN token_idfs THEN token_idfs[qt] ELSE IDF_FLOOR
        idfs == [qt \in query_tokens |-> idf_of(qt)]
        total_query_idf == SetSum(idfs, query_tokens)
        idf_overlap == SetSum(idfs, query_tokens \cap desc_tokens)
    IN
    IF total_query_idf = 0 THEN 0
    ELSE
    LET coverage == (idf_overlap * 1000) \div total_query_idf
        matched == Cardinality(query_tokens \cap desc_tokens)
        precision == (matched * 1000) \div Cardinality(desc_tokens)
    IN
    IF coverage + precision = 0 THEN 0
    ELSE LET f1 == (2 * coverage * precision) \div (coverage + precision)
         IN (f1 * f1) \div 1000

\* The postings of a word, none when the word is not in the dictionary.
PostingsOf(midx, word) == get_postings(midx, word).postings

\* The map doc_id -> sum whose entries are the documents of the
\* contributions <<doc_id, amount>>.
SumByDoc(contribs) ==
    [d \in {contribs[i][1] : i \in DOMAIN contribs} |->
        SeqSum([i \in DOMAIN contribs |->
                   IF contribs[i][1] = d THEN contribs[i][2] ELSE 0])]

\* The postings of a word with their scores scaled by f thousandths.
Scaled(postings, f) ==
    [k \in DOMAIN postings |-> <<postings[k][1], MulDiv(postings[k][2], f, 1000)>>]

\* Whether search expands the token by prefix.
PrefixAllowed(token, tok_idf) ==
    Len(token) >= PREFIX_MIN_LEN /\ tok_idf > PREFIX_MIN_IDF

\* The other words of the dictionary that the token starts.
PrefixWords(midx, token) ==
    {k \in DOMAIN midx.inverted_dict : k # token /\ starts_with(k, token)}

\* The contributions of the prefix expansion: the postings of every other
\* word the token starts, times 0.6^(difference of lengths + 1).
PrefixContribs(midx, token, tok_idf) ==
    IF ~PrefixAllowed(token, tok_idf) THEN <<>>
    ELSE LET ks == SetToSeq(PrefixWords(midx, token))
         IN Concat([i \in DOMAIN ks |->
                Scaled(PostingsOf(midx, ks[i]),
                       PowK(600, Len(ks[i]) - Len(token) + 1))])

\* The fuzzy fallback for every token of FUZZY_MIN_LEN characters.
FuzzyAllowedByLength(token, token_posts) ==
    Len(token) >= FUZZY_MIN_LEN

\* Whether search falls back to fuzzy matching, token_posts being the
\* postings the exact lookup and the prefix expansion produced.
FuzzyAllowed(token, token_posts) ==
    DOMAIN token_posts = {} /\ Len(token) >= FUZZY_MIN_LEN

\* The words of the dictionary at edit distance at most 1 of the token.
FuzzyWords(midx, token) ==
    {k \in DOMAIN midx.inverted_dict :
        AbsDiff(Len(k), Len(token)) <= 1 /\ edit_distance(k, token, 1) <= 1}

\* The contributions of the fuzzy fallback: the postings of every word at
\* edit distance at most 1, halved.
FuzzyContribs(midx, token) ==
    LET ks == SetToSeq(FuzzyWords(midx, token))
    IN Concat([i \in DOMAIN ks |-> Scaled(PostingsOf(midx, ks[i]), 500)])

\* Whether get_postings panics on one of the words.
Panics(midx, words) ==
    \E w \in words : get_postings(midx, w).outcome = "panic"

\* Whether a pass of the loop of search panics in get_postings: in the exact
\* lookup, the prefix expansion or the fuzzy fallback.
TokenPanics(midx, token, tok_idf) ==
    \/ Panics(midx, {token})
    \/ PrefixAllowed(token, tok_idf) /\ Panics(midx, PrefixWords(midx, token))
    \/ /\ FuzzyAllowed(token, SumByDoc(PostingsOf(midx, token)
                                          \o PrefixContribs(midx, token, tok_idf)))
       /\ Panics(midx, FuzzyWords(midx, token))

\* Whether a pair <<doc_id, score>> names a document the index does not
\* have: indexing doc_map or name_descs with it panics.
BadDocId(midx, ps) ==
    \E i \in DOMAIN ps : ps[i][1] >= Len(midx.doc_map)

\* The description pad: an entry 0 for every document of desc_index[token]
\* that has none.
DescPad(midx, token, token_posts) ==
    LET docs == IF token \in DOMAIN midx.desc_index
                THEN Range(midx.desc_index[token]) ELSE {}
    IN [d \in DOMAIN token_posts \cup docs |->
           IF d \in DOMAIN token_posts THEN token_posts[d] ELSE 0]

\* One pass of the loop of search over the query tokens: token_posts for
\* the token and the idf the loop pairs with it, and whether the fuzzy
\* fallback ran.
TokenPosts(midx, token, tok_idf) ==
    LET first == SumByDoc(PostingsOf(midx, token) \o PrefixContribs(midx, token, tok_idf))
        fuzzy == FuzzyAllowed(token, first)
        second == IF fuzzy THEN SumByDoc(FuzzyContribs(midx, token)) ELSE first
    IN [token |-> token, idf |-> tok_idf, fuzzy |-> fuzzy,
        first |-> first, posts |-> DescPad(midx, token, second)]

\* A map with the amounts of g added in, g's documents entered at 0 first.
AddInto(f, g) ==
    [d \in DOMAIN f \cup DOMAIN g |->
        (IF d \in DOMAIN f THEN f[d] ELSE 0) + (IF d \in DOMAIN g THEN g[d] ELSE 0)]

\* The map on the documents of posts that is v everywhere.
ConstOn(posts, v) == [d \in DOMAIN posts |-> v]

\* The number of passes of the loop of search: it runs over the query tokens
\* zipped with the values of token_idfs, so it ends with the shorter.
LoopLen(tokens) == Min(Len(tokens), Cardinality(Range(tokens)))

\* The exponent of the AND-coverage weight.
AndExp(tokens) == Max(Len(tokens) - 1, 2)

\* The score divided by the AND-coverage weight instead of multiplied.
CoverageScoreDivided(score, midf, total_idf, and_exp) ==
    LET coverage == Min((midf * 1000) \div total_idf, 1000)
    IN MulDiv(score, 1000, Max(PowK(coverage, and_exp), 1))

\* The score of a candidate after the AND-coverage weight.
CoverageScore(score, midf, total_idf, and_exp) ==
    LET coverage == Min((midf * 1000) \div total_idf, 1000)
    IN MulDiv(score, PowK(coverage, and_exp), 1000)

\* The candidates <<doc_id, score>>: every document of doc_score whose
\* matched idf is not 0.
CandidateSet(doc_score, doc_matched_idf, total_idf, and_exp) ==
    {<<d, CoverageScore(doc_score[d], doc_matched_idf[d], total_idf, and_exp)>> :
        d \in {e \in DOMAIN doc_score :
                  e \in DOMAIN doc_matched_idf /\ doc_matched_idf[e] # 0}}

Take(s, n) == SubSeq(s, 1, Min(n, Len(s)))

\* The semantic rerank of the candidates, re-sorted.
Rerank(cands, midx, query_token_set, token_idfs) ==
    SortByScore(
        [i \in DOMAIN cands |->
            LET sem == semantic_desc_score(query_token_set, token_idfs,
                                           midx.name_descs[cands[i][1] + 1])
            IN <<cands[i][1],
                 MulDiv(cands[i][2], 1000 + (SEMANTIC_WEIGHT * sem) \div 1000, 1000)>>])

\* The base of the file name of a document.
BaseOf(midx, doc_id) == FileBase(midx.doc_map[doc_id + 1])

\* Whether the i-th reranked pair is the one best_for_base ends with for
\* its base: no pair of the base has a higher score, and no earlier one has
\* the same.
IsBest(reranked, midx, i) ==
    \A j \in DOMAIN reranked :
        BaseOf(midx, reranked[j][1]) = BaseOf(midx, reranked[i][1]) =>
            /\ reranked[j][2] <= reranked[i][2]
            /\ (j < i => reranked[j][2] < reranked[i][2])

\* best_for_base overwritten by every pair of the base: the last one stays.
DedupedLast(reranked, midx) ==
    {reranked[i] : i \in {k \in DOMAIN reranked :
        \A j \in DOMAIN reranked :
            BaseOf(midx, reranked[j][1]) = BaseOf(midx, reranked[k][1]) => j <= k}}

\* The values of best_for_base after the loop over reranked.
Deduped(reranked, midx) ==
    {reranked[i] : i \in {k \in DOMAIN reranked : IsBest(reranked, midx, k)}}

(***************************************************************************)
(* The inputs of the model                                                 *)
(***************************************************************************)
\* The most files a crawl finds.
MaxFiles == 2

PageLs ==
    [fname |-> "ls.1", rendered |-> TRUE,
     lines |-> <<"NAME", "    ls - list directory contents", "DESCRIPTION",
                 "    list files">>]

PageLlvmLs ==
    [fname |-> "llvm-ls.1", rendered |-> TRUE,
     lines |-> <<"NAME", "    llvm-ls - list directory contents", "DESCRIPTION",
                 "    list files">>]

PageCp ==
    [fname |-> "cp.1", rendered |-> TRUE,
     lines |-> <<"NAME", "    cp - copy files and copy directories", "SYNOPSIS",
                 "    cp files">>]

\* A page with no NAME section and a one-letter base: its command name is
\* empty.
PageNoName ==
    [fname |-> "a.3const", rendered |-> TRUE, lines |-> <<"copy files">>]

\* A file the formatter fails on.
PageUnrendered == [fname |-> "bad.1", rendered |-> FALSE, lines |-> <<>>]

Pages == {PageLs, PageLlvmLs, PageCp, PageNoName, PageUnrendered}

\* The files a crawl can find, in the order it finds them.
Corpora ==
    UNION {{c \in [1..n -> Pages] : \A i, j \in 1..n : c[i] = c[j] => i = j} :
              n \in 0..MaxFiles}

\* The queries of a run.
RunQueries ==
    {"ls", "list directory", "copy copy files", "copyfil", "the of and", "xyzzy"}

\* The highest posting score, in whole units, of the index files the search
\* host is given.
MaxScore == 2

\* The documents of those index files.  Documents 0 and 3 have the same
\* file base.
SearchDocs ==
    <<[fname |-> "copy.1", cmd_name |-> "copi", name_desc |-> "files"],
      [fname |-> "scp.1", cmd_name |-> "scp", name_desc |-> "copy"],
      [fname |-> "file.1", cmd_name |-> "file", name_desc |-> ""],
      [fname |-> "copy.3", cmd_name |-> "copi", name_desc |-> ""]>>

\* The scores a document may have for the words "copi" and "file", 0 for
\* no posting.  A word of a description always has a posting.
ScoreChoices ==
    {c \in [1..Len(SearchDocs) -> [copi : 0..MaxScore, file : 0..MaxScore]] :
        /\ c[1].file > 0
        /\ c[2].copi > 0
        /\ c[3].copi = 0
        /\ c[4] = [copi |-> 0, file |-> 1]}

\* The posting list of a word under a choice of scores, sorted as
\* build_index sorts it.
ChoicePostings(c, w) ==
    SortByScore(SelectSeq([i \in 1..Len(SearchDocs) |-> <<i - 1, 1000 * c[i][w]>>],
                          LAMBDA e : e[2] > 0))

\* The Index of a choice of scores: the fields save_index writes.
ChoiceIndex(c) ==
    [doc_map |-> [i \in 1..Len(SearchDocs) |-> SearchDocs[i].fname],
     cmd_names |-> [i \in 1..Len(SearchDocs) |-> SearchDocs[i].cmd_name],
     name_descs |-> [i \in 1..Len(SearchDocs) |-> SearchDocs[i].name_desc],
     inverted |-> [w \in {v \in {"copi", "file"} : ChoicePostings(c, v) # <<>>} |->
                      ChoicePostings(c, w)]]

\* The queries the search host is asked.
SearchQueries == {"copy", "copy files", "copy copy", "files copy copy", "fill"}

NoFile == [exists |-> FALSE, data |-> <<>>]

FileOf(data) == [exists |-> TRUE, data |-> data]

\* An index file an earlier run left at the final path.
PrevIndexFile ==
    LET d == parse_doc(PageCp)
        ix == build_index(<<TempRecord(d)>>, CrawlStats(CrawlCount(CrawlStart, d)))
    IN save_index(ix, SetToSeq(DOMAIN ix.inverted))

\* The latest time of the clock of the HTTP host, in seconds.
MaxTime == 10

\* The seconds between two readings of the clock.
TickSecs == 5

\* The times the clock shows.
TimePoints == {t \in 0..MaxTime : t % TickSecs = 0}

\* The keys check is called with: search_api and content_api both pass
\* "global".
RateKeys == {"global"}

(***************************************************************************)
(* The state                                                               *)
(***************************************************************************)
VARIABLES
    pc,         \* where the run is: a step of main, or "failed", "killed"
    files,      \* the files of the source directories, in crawl order
    todo,       \* the files crawl has not visited yet
    cs,         \* the counters of crawl
    temp,       \* the file at TEMP_INDEX_PATH
    stats,      \* the CrawlStats crawl returned
    index,      \* the Index build_index returned
    final,      \* the file at FINAL_INDEX_PATH
    prev,       \* the file at FINAL_INDEX_PATH when the run began
    sv,         \* the locals of save_index: order, dict, dict_offset, wbuf
    err,        \* the step whose error ended the run, "" when none did
    steps,      \* the steps of main that returned, in order
    loaded,     \* the result of load_index
    queries,    \* the queries the host may ask
    sq,         \* the locals of search
    gp,         \* the last call of get_postings by the host: word and result
    tc,         \* a call of edit_distance or tokenize: arguments and result
    pd,         \* the locals of parse_doc on one page
    answers,    \* the results search returned to the host, in order
    rl          \* the RateLimiter of the HTTP host, its clock and its log

vars ==
    <<pc, files, todo, cs, temp, stats, index, final, prev, sv, err, steps,
      loaded, queries, sq, gp,
                   tc, pd, answers, rl>>

runVars == <<pc, todo, cs, temp, stats, index, final, sv, err, steps>>

NoStats == [none |-> TRUE]

SaveIdle == [order |-> <<>>, dict |-> <<>>, dict_offset |-> 0, wbuf |-> <<>>]

SearchIdle ==
    [spc |-> "idle", query |-> "", tokens |-> <<>>, idf_order |-> <<>>,
     iters |-> <<>>, doc_score |-> EmptyMap, doc_matched_idf |-> EmptyMap,
     candidates |-> <<>>, reranked |-> <<>>, result |-> <<>>]

NotLoaded == [outcome |-> "none", index |-> NoIndex]

NoCall == [word |-> "", res |-> [outcome |-> "none", postings |-> <<>>]]

\* RateLimiter::new at time 0: no bucket, no call of check yet, nothing
\* allowed at any time.
LimiterNew ==
    [now |-> 0, buckets |-> [k \in {} |-> <<0, 0>>],
     last |-> [key |-> "", allowed |-> FALSE],
     log |-> [k \in RateKeys |-> [t \in TimePoints |-> 0]]]

NoText ==
    [fn |-> "none", called |-> FALSE, a |-> "", b |-> "", k |-> 0, dist |-> 0,
     text |-> "", tokens |-> <<>>]

ParseIdle ==
    [ppc |-> "idle", page |-> PageUnrendered, pos |-> 0, acc |-> ParseStart,
     before |-> ParseStart, out |-> NoDoc]

Init ==
    /\ pc = "start"
    /\ files \in Corpora
    /\ todo = files
    /\ cs = CrawlStart
    /\ temp = NoFile
    /\ stats = NoStats
    /\ index = NoIndex
    /\ final \in {NoFile, FileOf(PrevIndexFile)}
    /\ prev = final
    /\ sv = SaveIdle
    /\ err = ""
    /\ steps = <<>>
    /\ loaded = NotLoaded
    /\ queries = RunQueries
    /\ sq = SearchIdle
    /\ gp = NoCall
    /\ tc = NoText
    /\ pd = ParseIdle
    /\ answers = <<>>
    /\ rl = LimiterNew

(***************************************************************************)
(* bin/index.rs: main, with crawl, build_index and save_index in steps     *)
(***************************************************************************)
\* crawl: File::create(out_path).
CrawlCreate ==
    /\ pc = "start"
    /\ temp' = FileOf(<<>>)
    /\ pc' = "crawl"
    /\ UNCHANGED <<files, todo, cs, stats, index, final, prev, sv, err, steps,
                   loaded, queries, sq, gp,
                   tc, pd, answers, rl>>

\* crawl: one file of the walk.  A file parse_doc drops is skipped.
CrawlFile ==
    /\ pc = "crawl"
    /\ todo # <<>>
    /\ LET doc == parse_doc(Head(todo)) IN
       IF doc = NoDoc
       THEN UNCHANGED <<cs, temp>>
       ELSE /\ cs' = CrawlCount(cs, doc)
            /\ temp' = FileOf(Append(temp.data, TempRecord(doc)))
    /\ todo' = Tail(todo)
    /\ UNCHANGED <<pc, files, stats, index, final, prev, sv, err, steps,
                   loaded, queries, sq, gp,
                   tc, pd, answers, rl>>

\* crawl: the flush and the statistics; crawl returns Ok.
CrawlFinish ==
    /\ pc = "crawl"
    /\ todo = <<>>
    /\ stats' = CrawlStats(cs)
    /\ steps' = Append(steps, "crawl")
    /\ pc' = "build"
    /\ UNCHANGED <<files, todo, cs, temp, index, final, prev, sv, err,
                   loaded, queries, sq, gp,
                   tc, pd, answers, rl>>

\* build_index returns Ok.
BuildIndex ==
    /\ pc = "build"
    /\ index' = build_index(temp.data, stats)
    /\ steps' = Append(steps, "build")
    /\ pc' = "save"
    /\ UNCHANGED <<files, todo, cs, temp, stats, final, prev, sv, err,
                   loaded, queries, sq, gp,
                   tc, pd, answers, rl>>

\* The places of the run inside save_index, after File::create.
SavePcs == {"save_docs", "save_postings", "save_dict", "save_footer", "save_flush"}

\* save_index: File::create(path) truncates the file at the final path.
SaveCreate ==
    /\ pc = "save"
    /\ final' = FileOf(<<>>)
    /\ \E order \in HashOrders(DOMAIN index.inverted) :
           sv' = [SaveIdle EXCEPT !.order = order]
    /\ pc' = "save_docs"
    /\ UNCHANGED <<files, todo, cs, temp, stats, index, prev, err, steps,
                   loaded, queries, sq, gp,
                   tc, pd, answers, rl>>

\* The position of the file under the BufWriter, the bytes in the buffer
\* not counted.
StreamPositionOfFile == Len(final.data)

\* The stream position of the BufWriter of save_index: the bytes in the
\* file and the bytes in the buffer.
StreamPosition == Len(final.data) + Len(sv.wbuf)

SaveDocs ==
    /\ pc = "save_docs"
    /\ sv' = [sv EXCEPT !.wbuf = @ \o SaveDocsBytes(index)]
    /\ pc' = "save_postings"
    /\ UNCHANGED <<files, todo, cs, temp, stats, index, final, prev, err, steps,
                   loaded, queries, sq, gp,
                   tc, pd, answers, rl>>

\* The loop over the words: w.stream_position() writes the buffer out
\* before every word, so only the postings of the last word stay in it.
SavePostings ==
    /\ pc = "save_postings"
    /\ IF sv.order = <<>>
       THEN /\ sv' = [sv EXCEPT !.dict = <<>>]
            /\ UNCHANGED final
       ELSE /\ final' = FileOf(final.data \o sv.wbuf
                                  \o SavePostingsBytes(index, SubSeq(sv.order, 1,
                                                                     Len(sv.order) - 1)))
            /\ sv' = [sv EXCEPT !.wbuf = PostingBytes(index.inverted[sv.order[Len(sv.order)]]),
                                !.dict = DictEntries(index, sv.order, StreamPosition)]
    /\ pc' = "save_dict"
    /\ UNCHANGED <<files, todo, cs, temp, stats, index, prev, err, steps,
                   loaded, queries, sq, gp,
                   tc, pd, answers, rl>>

\* The dictionary: w.stream_position() writes the buffer out and gives
\* dict_offset.
SaveDict ==
    /\ pc = "save_dict"
    /\ final' = FileOf(final.data \o sv.wbuf)
    /\ sv' = [sv EXCEPT !.wbuf = SaveDictBytes(sv.dict),
                        !.dict_offset = StreamPosition]
    /\ pc' = "save_footer"
    /\ UNCHANGED <<files, todo, cs, temp, stats, index, prev, err, steps,
                   loaded, queries, sq, gp,
                   tc, pd, answers, rl>>

SaveFooter ==
    /\ pc = "save_footer"
    /\ sv' = [sv EXCEPT !.wbuf = @ \o SaveFooterBytes(sv.dict_offset)]
    /\ pc' = "save_flush"
    /\ UNCHANGED <<files, todo, cs, temp, stats, index, final, prev, err, steps,
                   loaded, queries, sq, gp,
                   tc, pd, answers, rl>>

\* save_index: w.flush(); save_index returns Ok.
SaveFlush ==
    /\ pc = "save_flush"
    /\ final' = FileOf(final.data \o sv.wbuf)
    /\ sv' = [sv EXCEPT !.wbuf = <<>>]
    /\ steps' = Append(steps, "save")
    /\ pc' = "remove"
    /\ UNCHANGED <<files, todo, cs, temp, stats, index, prev, err,
                   loaded, queries, sq, gp,
                   tc, pd, answers, rl>>

\* The BufWriter of save_index writes its buffer out when it fills up.
BufSpill ==
    /\ pc \in SavePcs
    /\ sv.wbuf # <<>>
    /\ final' = FileOf(final.data \o sv.wbuf)
    /\ sv' = [sv EXCEPT !.wbuf = <<>>]
    /\ UNCHANGED <<pc, files, todo, cs, temp, stats, index, prev, err, steps,
                   loaded, queries, sq, gp,
                   tc, pd, answers, rl>>

\* main: let _ = fs::remove_file(TEMP_INDEX_PATH); its error is ignored.
RemoveTemp ==
    /\ pc = "remove"
    /\ temp' \in {NoFile, temp}
    /\ steps' = Append(steps, "remove")
    /\ pc' = "done"
    /\ UNCHANGED <<files, todo, cs, stats, index, final, prev, sv, err,
                   loaded, queries, sq, gp,
                   tc, pd, answers, rl>>

\* crawl returns an I/O error (File::create, a write or the flush); main
\* returns it.
CrawlFail ==
    /\ pc \in {"start", "crawl"}
    /\ err' = "crawl"
    /\ pc' = "failed"
    /\ UNCHANGED <<files, todo, cs, temp, stats, index, final, prev, sv, steps,
                   loaded, queries, sq, gp,
                   tc, pd, answers, rl>>

\* build_index returns an I/O error (File::open or a read); main returns it.
BuildFail ==
    /\ pc = "build"
    /\ err' = "build"
    /\ pc' = "failed"
    /\ UNCHANGED <<files, todo, cs, temp, stats, index, final, prev, sv, steps,
                   loaded, queries, sq, gp,
                   tc, pd, answers, rl>>

\* main removing the temp file on the way out of a failed save.
SaveFailCleanup ==
    /\ pc \in {"save"} \cup SavePcs
    /\ final' \in {final} \cup (IF pc \in SavePcs THEN {FileOf(final.data \o sv.wbuf)} ELSE {})
    /\ sv' = [sv EXCEPT !.wbuf = <<>>]
    /\ temp' = NoFile
    /\ err' = "save"
    /\ pc' = "failed"
    /\ UNCHANGED <<files, todo, cs, stats, index, prev, steps,
                   loaded, queries, sq, gp,
                   tc, pd, answers, rl>>

\* save_index returns an I/O error; main returns it.  File::create fails
\* before it truncates; after it, the BufWriter is dropped on the way out
\* and its drop writes the buffer out if it can.
SaveFail ==
    /\ pc \in {"save"} \cup SavePcs
    /\ final' \in {final} \cup (IF pc \in SavePcs THEN {FileOf(final.data \o sv.wbuf)} ELSE {})
    /\ sv' = [sv EXCEPT !.wbuf = <<>>]
    /\ err' = "save"
    /\ pc' = "failed"
    /\ UNCHANGED <<files, todo, cs, temp, stats, index, prev, steps,
                   loaded, queries, sq, gp,
                   tc, pd, answers, rl>>

RunningPcs ==
    {"start", "crawl", "build", "save", "remove"} \cup SavePcs

\* The process is killed; what its buffers held is lost.
Kill ==
    /\ pc \in RunningPcs
    /\ sv' = [sv EXCEPT !.wbuf = <<>>]
    /\ pc' = "killed"
    /\ UNCHANGED <<files, todo, cs, temp, stats, index, final, prev, err, steps,
                   loaded, queries, sq, gp,
                   tc, pd, answers, rl>>

(***************************************************************************)
(* bin/search.rs: load_index, then search.rs: search in steps              *)
(***************************************************************************)
\* The host loads the file at the final path, when no indexing run is under
\* way.
LoadIndex ==
    /\ pc \notin RunningPcs
    /\ final.exists
    /\ loaded.outcome = "none"
    /\ loaded' = load_index(final.data)
    /\ UNCHANGED <<runVars, files, prev, queries, sq, gp, tc, pd, answers, rl>>

\* The loaded index.
Midx == loaded.index

\* The host asks the loaded index for the postings of a word.
GetPostings(word) ==
    /\ loaded.outcome = "ok"
    /\ gp' = [word |-> word, res |-> get_postings(Midx, word)]
    /\ UNCHANGED <<runVars, files, prev, loaded, queries, sq, tc, pd, answers, rl>>

\* search, to the start of the loop over the tokens.  An empty token list
\* returns the empty result.  idf_order is the order in which
\* token_idfs.values() yields the idfs, by the token each belongs to.
SearchBegin(query) ==
    /\ loaded.outcome = "ok"
    /\ sq.spc = "idle"
    /\ LET tokens == tokenize(query) IN
       IF tokens = <<>>
       THEN sq' = [sq EXCEPT !.spc = "done", !.query = query]
       ELSE \E order \in Perms(Range(tokens)) :
                sq' = [sq EXCEPT !.spc = "loop", !.query = query,
                                 !.tokens = tokens, !.idf_order = order]
    /\ UNCHANGED <<runVars, files, prev, loaded, queries, gp, tc, pd, answers, rl>>

TotalIdf == SetSum(TokenIdfs(sq.tokens, Midx), Range(sq.tokens))

\* One pass of the loop over query_tokens_vec zipped with token_idfs.values().
\* A read of get_postings outside the mapped file panics.
SearchToken ==
    /\ sq.spc = "loop"
    /\ Len(sq.iters) < LoopLen(sq.tokens)
    /\ LET k == Len(sq.iters) + 1
           tok_idf == TokenIdfs(sq.tokens, Midx)[sq.idf_order[k]]
           it == TokenPosts(Midx, sq.tokens[k], tok_idf)
       IN IF TokenPanics(Midx, sq.tokens[k], tok_idf)
          THEN sq' = [sq EXCEPT !.spc = "panic"]
          ELSE sq' = [sq EXCEPT !.iters = Append(@, it),
                                !.doc_score = AddInto(@, it.posts),
                                !.doc_matched_idf = AddInto(@, ConstOn(it.posts, tok_idf))]
    /\ UNCHANGED <<runVars, files, prev, loaded, queries, gp, tc, pd, answers, rl>>

\* The AND-coverage weights and the first sort: the candidates are collected
\* in the order the map doc_score yields them, then sorted.
SearchCoverage ==
    /\ sq.spc = "loop"
    /\ Len(sq.iters) = LoopLen(sq.tokens)
    /\ \E collected \in Perms(CandidateSet(sq.doc_score, sq.doc_matched_idf,
                                           TotalIdf, AndExp(sq.tokens))) :
           sq' = [sq EXCEPT !.spc = "rerank", !.candidates = SortByScore(collected)]
    /\ UNCHANGED <<runVars, files, prev, loaded, queries, gp, tc, pd, answers, rl>>

\* The semantic rerank of the first SEMANTIC_RERANK_N candidates;
\* index.name_descs[doc_id] panics for a document the index does not have.
SearchRerank ==
    /\ sq.spc = "rerank"
    /\ IF BadDocId(Midx, Take(sq.candidates, SEMANTIC_RERANK_N))
       THEN sq' = [sq EXCEPT !.spc = "panic"]
       ELSE sq' = [sq EXCEPT !.spc = "dedup",
                             !.reranked = Rerank(Take(sq.candidates, SEMANTIC_RERANK_N),
                                                 Midx, Range(sq.tokens),
                                                 TokenIdfs(sq.tokens, Midx))]
    /\ UNCHANGED <<runVars, files, prev, loaded, queries, gp, tc, pd, answers, rl>>

\* The deduplication by file base and the last sort, of the values of
\* best_for_base in the order the map yields them; search returns.
SearchDedup ==
    /\ sq.spc = "dedup"
    /\ IF BadDocId(Midx, sq.reranked)
       THEN sq' = [sq EXCEPT !.spc = "panic"]
       ELSE \E collected \in Perms(Deduped(sq.reranked, Midx)) :
                sq' = [sq EXCEPT !.spc = "done", !.result = SortByScore(collected)]
    /\ UNCHANGED <<runVars, files, prev, loaded, queries, gp, tc, pd, answers, rl>>

SearchStep ==
    \/ \E q \in queries : SearchBegin(q)
    \/ SearchToken
    \/ SearchCoverage
    \/ SearchRerank
    \/ SearchDedup

Next ==
    \/ CrawlCreate
    \/ CrawlFile
    \/ CrawlFinish
    \/ BuildIndex
    \/ SaveCreate
    \/ SaveDocs
    \/ SavePostings
    \/ SaveDict
    \/ SaveFooter
    \/ SaveFlush
    \/ BufSpill
    \/ RemoveTemp
    \/ CrawlFail
    \/ BuildFail
    \/ SaveFail
    \/ Kill
    \/ LoadIndex
    \/ SearchStep

\* An indexing run, the load of its index and one query.
Spec == Init /\ [][Next]_vars

(***************************************************************************)
(* The search host on an index file                                        *)
(***************************************************************************)
\* No indexing run is under way; an index file is at the final path.
InitSearch ==
    /\ pc = "idle"
    /\ files = <<>>
    /\ todo = <<>>
    /\ cs = CrawlStart
    /\ temp = NoFile
    /\ stats = NoStats
    /\ index = NoIndex
    /\ \E c \in ScoreChoices :
           final = FileOf(save_index(ChoiceIndex(c), SetToSeq(DOMAIN ChoiceIndex(c).inverted)))
    /\ prev = final
    /\ sv = SaveIdle
    /\ err = ""
    /\ steps = <<>>
    /\ loaded = NotLoaded
    /\ queries = SearchQueries
    /\ sq = SearchIdle
    /\ gp = NoCall
    /\ tc = NoText
    /\ pd = ParseIdle
    /\ answers = <<>>
    /\ rl = LimiterNew

NextSearch ==
    \/ LoadIndex
    \/ SearchStep

\* The load of an index file and one query.
SpecSearch == InitSearch /\ [][NextSearch]_vars

(***************************************************************************)
(* The search host on a damaged index file                                 *)
(***************************************************************************)
\* The values a damaged byte takes.
CorruptBytes == {0, 1, 255}

\* The index file of an earlier run cut short, or with one byte overwritten.
CorruptFiles ==
    {SubSeq(PrevIndexFile, 1, k) : k \in 0..Len(PrevIndexFile)}
        \cup {[PrevIndexFile EXCEPT ![p] = b] :
                 p \in 1..Len(PrevIndexFile), b \in CorruptBytes}

InitLoad ==
    /\ pc = "idle"
    /\ files = <<>>
    /\ todo = <<>>
    /\ cs = CrawlStart
    /\ temp = NoFile
    /\ stats = NoStats
    /\ index = NoIndex
    /\ \E f \in CorruptFiles : final = FileOf(f)
    /\ prev = final
    /\ sv = SaveIdle
    /\ err = ""
    /\ steps = <<>>
    /\ loaded = NotLoaded
    /\ queries = {}
    /\ sq = SearchIdle
    /\ gp = NoCall
    /\ tc = NoText
    /\ pd = ParseIdle
    /\ answers = <<>>
    /\ rl = LimiterNew

\* The words the host asks for: the words of the loaded dictionary and a
\* word that is not in it.
LoadedWords ==
    IF loaded.outcome = "ok" THEN DOMAIN Midx.inverted_dict \cup {"xyzzi"} ELSE {}

NextLoad ==
    \/ LoadIndex
    \/ \E w \in LoadedWords : GetPostings(w)

\* The load of an index file and the calls of get_postings on it.
SpecLoad == InitLoad /\ [][NextLoad]_vars

(***************************************************************************)
(* bin/search.rs: the interactive loop on a loaded index                   *)
(***************************************************************************)
\* The most queries the loop reads.
MaxCalls == 2

\* The queries typed at the prompt.
RepeatQueries == {"copy", "copy files"}

\* No indexing run is under way; an index file is at the final path.
InitRepeat ==
    /\ pc = "idle"
    /\ files = <<>>
    /\ todo = <<>>
    /\ cs = CrawlStart
    /\ temp = NoFile
    /\ stats = NoStats
    /\ index = NoIndex
    /\ \E c \in ScoreChoices :
           final = FileOf(save_index(ChoiceIndex(c), SetToSeq(DOMAIN ChoiceIndex(c).inverted)))
    /\ prev = final
    /\ sv = SaveIdle
    /\ err = ""
    /\ steps = <<>>
    /\ loaded = NotLoaded
    /\ queries = RepeatQueries
    /\ sq = SearchIdle
    /\ gp = NoCall
    /\ tc = NoText
    /\ pd = ParseIdle
    /\ answers = <<>>
    /\ rl = LimiterNew

\* search has returned; the loop prints the result and reads the next line.
SearchReturn ==
    /\ sq.spc = "done"
    /\ Len(answers) + 1 < MaxCalls
    /\ answers' = Append(answers, [query |-> sq.query, result |-> sq.result])
    /\ sq' = SearchIdle
    /\ UNCHANGED <<runVars, files, prev, loaded, queries, gp, tc, pd, rl>>

NextRepeat ==
    \/ LoadIndex
    \/ SearchStep
    \/ SearchReturn

\* The load of an index file and the queries of the interactive loop.
SpecRepeat == InitRepeat /\ [][NextRepeat]_vars

(***************************************************************************)
(* bin/server.rs: the RateLimiter                                          *)
(***************************************************************************)
RATE_LIMIT_WINDOW_SECS == 10

RATE_LIMIT_MAX_REQUESTS == 30

\* The bucket of a key after buckets.entry(key).or_insert((0, now)).
EntryOf(buckets, key, now) ==
    IF key \in DOMAIN buckets THEN buckets[key] ELSE <<0, now>>

\* RateLimiter::check under the lock: the bucket of the key after the call
\* and whether the request is allowed.
check(buckets, key, now) ==
    LET entry == EntryOf(buckets, key, now) IN
    IF now - entry[2] >= RATE_LIMIT_WINDOW_SECS
    THEN [entry |-> <<1, now>>, allowed |-> TRUE]
    ELSE IF entry[1] < RATE_LIMIT_MAX_REQUESTS
    THEN [entry |-> <<entry[1] + 1, entry[2]>>, allowed |-> TRUE]
    ELSE [entry |-> entry, allowed |-> FALSE]

\* The server is up: nothing else is modelled of it than its RateLimiter.
InitLimiter ==
    /\ pc = "idle"
    /\ files = <<>>
    /\ todo = <<>>
    /\ cs = CrawlStart
    /\ temp = NoFile
    /\ stats = NoStats
    /\ index = NoIndex
    /\ final = NoFile
    /\ prev = final
    /\ sv = SaveIdle
    /\ err = ""
    /\ steps = <<>>
    /\ loaded = NotLoaded
    /\ queries = {}
    /\ sq = SearchIdle
    /\ gp = NoCall
    /\ tc = NoText
    /\ pd = ParseIdle
    /\ answers = <<>>
    /\ rl = LimiterNew

\* Time passes between two requests.
Tick ==
    /\ rl.now + TickSecs <= MaxTime
    /\ rl' = [rl EXCEPT !.now = @ + TickSecs]
    /\ UNCHANGED <<runVars, files, prev, loaded, queries, sq, gp, tc, pd, answers>>

\* A handler calls rate_limiter.check(key): the whole call runs with the
\* mutex held, Instant::now() read inside.  Concurrent handlers take the
\* mutex one after the other.
Check(key) ==
    /\ LET res == check(rl.buckets, key, rl.now) IN
       rl' = [rl EXCEPT
                 !.buckets = [k \in DOMAIN rl.buckets \cup {key} |->
                                 IF k = key THEN res.entry ELSE rl.buckets[k]],
                 !.last = [key |-> key, allowed |-> res.allowed],
                 !.log[key][rl.now] = @ + (IF res.allowed THEN 1 ELSE 0)]
    /\ UNCHANGED <<runVars, files, prev, loaded, queries, sq, gp, tc, pd, answers>>

NextLimiter ==
    \/ Tick
    \/ \E key \in RateKeys : Check(key)

\* The calls of check by the handlers of the HTTP host as time passes.
SpecLimiter == InitLimiter /\ [][NextLimiter]_vars

(***************************************************************************)
(* Calls of the text functions                                             *)
(***************************************************************************)
\* The longest word edit_distance is called with.
MaxWordLen == 3

\* The highest max_dist edit_distance is called with.
MaxDist == 2

\* The most words of a text tokenize is called with.
MaxTextWords == 2

RECURSIVE WordsOfLen(_)
\* The words of n letters over a, b, c.
WordsOfLen(n) ==
    IF n = 0 THEN {""}
    ELSE {w \o c : w \in WordsOfLen(n - 1), c \in {"a", "b", "c"}}

EditWords == UNION {WordsOfLen(n) : n \in 0..MaxWordLen}

\* The words and the separators of the texts.
TextWords ==
    {"sets", "set", "The", "returned", "ls", "-l", "-", "--all", "copy", "it's",
     "files", "a"}

TextSeps == {" ", ", "}

RECURSIVE TextsOfLen(_)
TextsOfLen(n) ==
    IF n = 1 THEN TextWords
    ELSE {t \o sep \o w : t \in TextsOfLen(n - 1), sep \in TextSeps, w \in TextWords}

Texts == UNION {TextsOfLen(n) : n \in 1..MaxTextWords}

\* A caller is about to call edit_distance or tokenize.
InitText ==
    /\ pc = "idle"
    /\ files = <<>>
    /\ todo = <<>>
    /\ cs = CrawlStart
    /\ temp = NoFile
    /\ stats = NoStats
    /\ index = NoIndex
    /\ final = NoFile
    /\ prev = final
    /\ sv = SaveIdle
    /\ err = ""
    /\ steps = <<>>
    /\ loaded = NotLoaded
    /\ queries = {}
    /\ sq = SearchIdle
    /\ gp = NoCall
    /\ \/ \E a \in EditWords, b \in EditWords, k \in 0..MaxDist :
              tc = [NoText EXCEPT !.fn = "edit_distance", !.a = a, !.b = b, !.k = k]
       \/ \E text \in Texts : tc = [NoText EXCEPT !.fn = "tokenize", !.text = text]
    /\ pd = ParseIdle
    /\ answers = <<>>
    /\ rl = LimiterNew

\* The call of edit_distance returns.
CallEditDistance ==
    /\ tc.fn = "edit_distance"
    /\ ~tc.called
    /\ tc' = [tc EXCEPT !.called = TRUE, !.dist = edit_distance(tc.a, tc.b, tc.k)]
    /\ UNCHANGED <<runVars, files, prev, loaded, queries, sq, gp, pd, answers, rl>>

\* The call of tokenize returns.
CallTokenize ==
    /\ tc.fn = "tokenize"
    /\ ~tc.called
    /\ tc' = [tc EXCEPT !.called = TRUE, !.tokens = tokenize(tc.text)]
    /\ UNCHANGED <<runVars, files, prev, loaded, queries, sq, gp, pd, answers, rl>>

NextText ==
    \/ CallEditDistance
    \/ CallTokenize

\* One call of edit_distance or of tokenize.
SpecText == InitText /\ [][NextText]_vars

(***************************************************************************)
(* crawl on one file, parse_doc line by line                               *)
(***************************************************************************)
\* The most lines of a rendered page.
MaxLines == 4

\* The lines of the rendered pages.
PageLines == {"NAME", "SYNOPSIS", "SEE ALSO", "", "cp - copy files", "  cp files"}

\* The file names of the pages: a base of one letter and a longer one.
PageNames == {"x.1", "cp.1"}

RECURSIVE LinesOfLen(_)
LinesOfLen(n) ==
    IF n = 0 THEN {<<>>}
    ELSE {Append(ls, l) : ls \in LinesOfLen(n - 1), l \in PageLines}

\* The pages crawl can find: rendered ones and ones the formatter fails on.
ParsePages ==
    {[fname |-> f, rendered |-> TRUE, lines |-> ls] :
        f \in PageNames, ls \in UNION {LinesOfLen(n) : n \in 0..MaxLines}}
    \cup {[fname |-> f, rendered |-> FALSE, lines |-> <<>>] : f \in PageNames}

\* crawl has created the temp file and found one file.
InitParse ==
    /\ pc = "idle"
    /\ files = <<>>
    /\ todo = <<>>
    /\ cs = CrawlStart
    /\ temp = FileOf(<<>>)
    /\ stats = NoStats
    /\ index = NoIndex
    /\ final = NoFile
    /\ prev = final
    /\ sv = SaveIdle
    /\ err = ""
    /\ steps = <<>>
    /\ loaded = NotLoaded
    /\ queries = {}
    /\ sq = SearchIdle
    /\ gp = NoCall
    /\ tc = NoText
    /\ \E page \in ParsePages : pd = [ParseIdle EXCEPT !.ppc = "render", !.page = page]
    /\ answers = <<>>
    /\ rl = LimiterNew

\* parse_doc: render_man_page; an error returns None.
ParseRender ==
    /\ pd.ppc = "render"
    /\ pd' = [pd EXCEPT !.ppc = IF pd.page.rendered THEN "lines" ELSE "returned"]
    /\ UNCHANGED <<runVars, files, prev, loaded, queries, sq, gp, tc, answers, rl>>

\* parse_doc: one pass of the loop over the lines.
ParseLineStep ==
    /\ pd.ppc = "lines"
    /\ pd.pos < Len(pd.page.lines)
    /\ pd' = [pd EXCEPT !.pos = @ + 1, !.before = pd.acc,
                        !.acc = ParseLine(pd.acc, pd.page.lines[pd.pos + 1])]
    /\ UNCHANGED <<runVars, files, prev, loaded, queries, sq, gp, tc, answers, rl>>

\* parse_doc: after the loop, the fallback name and the empty check.
ParseReturn ==
    /\ pd.ppc = "lines"
    /\ pd.pos = Len(pd.page.lines)
    /\ pd' = [pd EXCEPT !.ppc = "returned",
                        !.out = ParseFinish(pd.page, pd.acc, FileBase(pd.page.fname))]
    /\ UNCHANGED <<runVars, files, prev, loaded, queries, sq, gp, tc, answers, rl>>

\* crawl: what it does with the result of parse_doc.
CrawlParsed ==
    /\ pd.ppc = "returned"
    /\ IF pd.out = NoDoc
       THEN UNCHANGED <<cs, temp>>
       ELSE /\ cs' = CrawlCount(cs, pd.out)
            /\ temp' = FileOf(Append(temp.data, TempRecord(pd.out)))
    /\ pd' = [pd EXCEPT !.ppc = "crawled"]
    /\ UNCHANGED <<pc, files, todo, stats, index, final, prev, sv, err, steps,
                   loaded, queries, sq, gp, tc, answers, rl>>

NextParse ==
    \/ ParseRender
    \/ ParseLineStep
    \/ ParseReturn
    \/ CrawlParsed

\* crawl on one file, with parse_doc in steps.
SpecParse == InitParse /\ [][NextParse]_vars

(***************************************************************************)
(* Properties of search                                                    *)
(***************************************************************************)
\* The loop of search over the query tokens is over.
LoopOver == sq.spc \in {"rerank", "dedup", "done"}

\* The number of passes of the loop that processed the token t.
Passes(t) == Cardinality({k \in DOMAIN sq.iters : sq.iters[k].token = t})

\* The place of the document d in a sequence of pairs <<doc_id, score>>.
PosIn(ps, d) == CHOOSE i \in DOMAIN ps : ps[i][1] = d

\* The documents of a sequence of pairs <<doc_id, score>>.
DocsIn(ps) == {ps[i][1] : i \in DOMAIN ps}

IsSortedDesc(ps) == \A i \in 1..(Len(ps) - 1) : ps[i][2] >= ps[i + 1][2]

\* C1: when the loop of search is over, every token that occurs more than
\* once in the token list of the query has been processed once per
\* occurrence: the loop made as many passes for it as it has occurrences.
C1_OncePerOccurrence ==
    LoopOver =>
        \A t \in Range(sq.tokens) :
            Count(sq.tokens, t) > 1 => Passes(t) = Count(sq.tokens, t)

\* C2: in the result search returns no two entries have the same file base,
\* and every entry is a reranked pair whose score no reranked pair of the
\* same base exceeds.
C2_DedupKeepsBest ==
    sq.spc = "done" =>
        /\ \A i, j \in DOMAIN sq.result :
               BaseOf(Midx, sq.result[i][1]) = BaseOf(Midx, sq.result[j][1]) => i = j
        /\ \A i \in DOMAIN sq.result :
               /\ \E k \in DOMAIN sq.reranked : sq.reranked[k] = sq.result[i]
               /\ \A k \in DOMAIN sq.reranked :
                      BaseOf(Midx, sq.reranked[k][1]) = BaseOf(Midx, sq.result[i][1])
                          => sq.reranked[k][2] <= sq.result[i][2]

\* search has returned, and two reranked documents of different scores had
\* the same base: one of them was dropped.
C2_Witness ==
    /\ sq.spc = "done"
    /\ Len(sq.result) < Len(sq.reranked)
    /\ \E j, k \in DOMAIN sq.reranked :
           /\ BaseOf(Midx, sq.reranked[j][1]) = BaseOf(Midx, sq.reranked[k][1])
           /\ sq.reranked[j][2] < sq.reranked[k][2]

\* C3: the result search returns is in descending order of score.
C3_ResultSortedDesc == sq.spc = "done" => IsSortedDesc(sq.result)

\* search has returned several results, not all of the same score.
C3_Witness ==
    /\ sq.spc = "done"
    /\ Len(sq.result) >= 3
    /\ sq.result[1][2] > sq.result[Len(sq.result)][2]

\* Two documents of equal raw summed score, the first of the higher
\* matched idf.
EqualRawHigherIdf(a, b) ==
    /\ a \in DOMAIN sq.doc_score /\ b \in DOMAIN sq.doc_score
    /\ sq.doc_score[a] = sq.doc_score[b]
    /\ sq.doc_matched_idf[a] > sq.doc_matched_idf[b]

\* C4 as claimed: for a query of more than one token, of two documents of
\* equal raw summed score and different matched idf that are both in the
\* returned result, the one of the higher matched idf comes first.
C4_HigherIdfFirstInResult ==
    (sq.spc = "done" /\ Len(sq.tokens) > 1) =>
        \A a, b \in DocsIn(sq.result) :
            EqualRawHigherIdf(a, b) => PosIn(sq.result, a) < PosIn(sq.result, b)

\* C4 as amended: for a query of more than one token, of two documents of
\* equal raw summed score and different matched idf, the one of the higher
\* matched idf comes first in the candidates sorted after the AND-coverage
\* weighting, unless the two weighted scores are equal.
C4_HigherIdfFirstInCandidates ==
    (LoopOver /\ Len(sq.tokens) > 1) =>
        \A a, b \in DocsIn(sq.candidates) :
            EqualRawHigherIdf(a, b) =>
                \/ PosIn(sq.candidates, a) < PosIn(sq.candidates, b)
                \/ sq.candidates[PosIn(sq.candidates, a)][2]
                       = sq.candidates[PosIn(sq.candidates, b)][2]

\* The candidates of a query of two tokens hold two documents of equal raw
\* summed score, and the weighted score of the one of the higher matched idf
\* is the greater.
C4_Witness ==
    /\ LoopOver /\ Len(sq.tokens) > 1
    /\ \E a, b \in DocsIn(sq.candidates) :
           /\ EqualRawHigherIdf(a, b)
           /\ sq.candidates[PosIn(sq.candidates, a)][2]
                  > sq.candidates[PosIn(sq.candidates, b)][2]

(***************************************************************************)
(* Properties of the indexing run                                          *)
(***************************************************************************)
\* save_index has returned Ok in this run.
Saved == Len(steps) >= 3

\* The file names of a sequence of pairs <<doc_id, score>>.
NamesIn(ps) == [i \in DOMAIN ps |-> Midx.doc_map[ps[i][1] + 1]]

\* C5: on the index of a run over ls.1 and llvm-ls.1, search with the query
\* "ls" returns both documents, ls.1 first.
C5_LsFindsBoth ==
    (/\ Range(files) = {PageLs, PageLlvmLs}
     /\ Saved /\ loaded.outcome = "ok"
     /\ sq.spc = "done" /\ sq.query = "ls")
        => /\ Range(NamesIn(sq.result)) = {"ls.1", "llvm-ls.1"}
           /\ NamesIn(sq.result)[1] = "ls.1"

\* The words get_postings is asked for: the words of the index, the empty
\* word and a word of no document.
ProbeWords == DOMAIN index.inverted \cup {"", "xyzzi"}

\* C6: once save_index has returned, load_index on the file gives the
\* doc_map, cmd_names and name_descs of the Index saved and a dictionary
\* with the words of its inverted map, and get_postings gives the posting
\* list of every one of these words, pair by pair in order, and None for
\* another word.
C6_RoundTrip ==
    (Saved /\ loaded.outcome # "none") =>
        /\ loaded.outcome = "ok"
        /\ Midx.doc_map = index.doc_map
        /\ Midx.cmd_names = index.cmd_names
        /\ Midx.name_descs = index.name_descs
        /\ DOMAIN Midx.inverted_dict = DOMAIN index.inverted
        /\ \A w \in ProbeWords :
               get_postings(Midx, w) =
                   IF w \in DOMAIN index.inverted
                   THEN [outcome |-> "some", postings |-> index.inverted[w]]
                   ELSE [outcome |-> "none", postings |-> <<>>]

\* An Index of several words, one of them with two postings, was saved and
\* loaded.
C6_Witness ==
    /\ Saved /\ loaded.outcome = "ok"
    /\ Cardinality(DOMAIN index.inverted) >= 2
    /\ \E w \in DOMAIN index.inverted : Len(index.inverted[w]) >= 2

\* C8: after an I/O error or a kill, the file at the final path is absent,
\* or the index that was there before the run, or an index load_index
\* accepts.
C8_NoPartialIndex ==
    pc \in {"failed", "killed"} =>
        \/ ~final.exists
        \/ final = prev
        \/ load_index(final.data).outcome = "ok"

\* The step of main a place of the run belongs to.
StepOf(p) ==
    CASE p \in {"start", "crawl"} -> "crawl"
      [] p = "build" -> "build"
      [] p \in {"save"} \cup SavePcs -> "save"
      [] OTHER -> "remove"

\* The steps of main that come before a step.
StepsBefore(step) ==
    CASE step = "crawl" -> <<>>
      [] step = "build" -> <<"crawl">>
      [] step = "save" -> <<"crawl", "build">>
      [] OTHER -> <<"crawl", "build", "save">>

\* C9: the temp file goes away only in the removal step, after crawl,
\* build_index and save_index have returned Ok; a step that returns an error
\* ends the run with that error, the temp file as it was and only the
\* earlier steps done, and nothing of the run changes afterwards.
C9_TempRemovedAfterSave ==
    [][/\ (temp.exists /\ ~temp'.exists) =>
              (pc = "remove" /\ steps = StepsBefore("remove") /\ err = "")
       /\ (pc # "failed" /\ pc' = "failed") =>
              /\ err' = StepOf(pc)
              /\ steps' = steps /\ steps = StepsBefore(StepOf(pc))
              /\ temp' = temp
       /\ pc = "failed" => UNCHANGED <<pc, err, steps, temp, todo, index, final>>]_vars

\* A run that came to its end removed the temp file.
C9_Witness ==
    /\ pc = "done"
    /\ steps = <<"crawl", "build", "save", "remove">>
    /\ ~temp.exists

\* The posting list of a term in the Index built, empty for a term without.
InvertedOf(t) == IF t \in DOMAIN index.inverted THEN index.inverted[t] ELSE <<>>

\* The terms of the records of the temp file.
TempTerms == UNION {all_terms(temp.data[i]) : i \in DOMAIN temp.data}

\* C10: in the Index build_index returns, the posting list of a term holds
\* a posting for a document exactly when the combined score of the pair is
\* above 0, and no posting has a score of 0 or less.
C10_PostingIffPositive ==
    (index # NoIndex /\ temp.exists) =>
        /\ \A t \in TempTerms \cup DOMAIN index.inverted \cup {"xyzzi"} :
               \A i \in DOMAIN temp.data :
                   (i - 1 \in DocsIn(InvertedOf(t)))
                       <=> TermScore(t, temp.data[i], stats) > 0
        /\ \A t \in DOMAIN index.inverted :
               \A k \in DOMAIN index.inverted[t] : index.inverted[t][k][2] > 0

\* An Index was built from a record whose empty command name scores 0, and
\* from terms that score above 0.
C10_Witness ==
    /\ index # NoIndex /\ temp.exists
    /\ "" \in TempTerms
    /\ "" \notin DOMAIN index.inverted
    /\ DOMAIN index.inverted # {}

\* The terms of a record of the temp file: the keys of its three maps and
\* its command name when it has one.
RecordTerms(rec) ==
    (DOMAIN rec.desc_tf \cup DOMAIN rec.synopsis_tf \cup DOMAIN rec.body_tf)
        \cup (IF rec.cmd_name = "" THEN {} ELSE {rec.cmd_name})

\* The records of the temp file that have the term.
RecordsWith(t) == {i \in DOMAIN temp.data : t \in RecordTerms(temp.data[i])}

CrawlReturned == stats # NoStats /\ temp.exists

\* C18: after crawl, global_df[term] is the number of written documents
\* whose terms (the keys of the three maps and the non-empty cmd_name)
\* include the term, and it is at most total_docs.
C18_DocumentFrequency ==
    CrawlReturned =>
        /\ stats.total_docs = Len(temp.data)
        /\ DOMAIN stats.global_df = UNION {RecordTerms(temp.data[i]) : i \in DOMAIN temp.data}
        /\ \A t \in DOMAIN stats.global_df :
               /\ stats.global_df[t] = Cardinality(RecordsWith(t))
               /\ stats.global_df[t] <= stats.total_docs

\* crawl wrote two documents with a common term, one of them with a term in
\* two of its fields, and another term in one document only.
C18_Witness ==
    /\ CrawlReturned
    /\ Len(temp.data) = 2
    /\ \E t \in DOMAIN stats.global_df : stats.global_df[t] = 2
    /\ \E t \in DOMAIN stats.global_df : stats.global_df[t] = 1
    /\ \E i \in DOMAIN temp.data :
           DOMAIN temp.data[i].desc_tf \cap DOMAIN temp.data[i].synopsis_tf # {}

\* C20: the desc_index load_index rebuilds is the desc_index build_index
\* made: the same terms, the same list of document ids for each, a document
\* id at most once in a list.
C20_DescIndexRebuilt ==
    (Saved /\ loaded.outcome = "ok") =>
        /\ Midx.desc_index = index.desc_index
        /\ \A t \in DOMAIN Midx.desc_index :
               \A i, j \in DOMAIN Midx.desc_index[t] :
                   Midx.desc_index[t][i] = Midx.desc_index[t][j] => i = j

Built == index # NoIndex /\ temp.exists

\* C21: after crawl and build_index, the posting list of every term has
\* global_df[term] postings, with a document id at most once, and the
\* dictionary of the saved index gives the same count at query time.
C21_PostingsEqualDf ==
    /\ Built =>
           /\ DOMAIN index.inverted = DOMAIN stats.global_df
           /\ \A t \in DOMAIN index.inverted :
                  /\ Len(index.inverted[t]) = stats.global_df[t]
                  /\ \A i, j \in DOMAIN index.inverted[t] :
                         index.inverted[t][i][1] = index.inverted[t][j][1] => i = j
    /\ (Saved /\ loaded.outcome = "ok") =>
           \A t \in DOMAIN stats.global_df :
               /\ t \in DOMAIN Midx.inverted_dict
               /\ Midx.inverted_dict[t][2] = stats.global_df[t]

\* An Index with a term of every document and a term of one document only
\* was built from two records, saved and loaded.
C21_Witness ==
    /\ Saved /\ loaded.outcome = "ok"
    /\ stats.total_docs = 2
    /\ \E t \in DOMAIN index.inverted : Len(index.inverted[t]) = 2
    /\ \E t \in DOMAIN index.inverted : Len(index.inverted[t]) = 1

\* Where the document records of the file of an Index end.
DocsEnd == Len(SaveDocsBytes(index))

\* The bytes of the file from position from up to position to.
FileBytes(from, to) == SubSeq(final.data, from + 1, to)

\* C22: in the file save_index wrote, the byte range of every dictionary
\* entry lies between the end of the document records and dict_offset and
\* holds the postings of its word, the ranges of two entries do not overlap,
\* and the last 8 bytes hold dict_offset, where the dictionary starts.
C22_PostingRangesInFile ==
    Saved =>
        /\ FileBytes(0, DocsEnd) = SaveDocsBytes(index)
        /\ U64At(final.data, Len(final.data) - 8) = sv.dict_offset
        /\ FileBytes(sv.dict_offset, Len(final.data) - 8) = SaveDictBytes(sv.dict)
        /\ {sv.dict[k][1] : k \in DOMAIN sv.dict} = DOMAIN index.inverted
        /\ \A k \in DOMAIN sv.dict :
               /\ DocsEnd <= sv.dict[k][2]
               /\ sv.dict[k][2] + 8 * sv.dict[k][3] <= sv.dict_offset
               /\ FileBytes(sv.dict[k][2], sv.dict[k][2] + 8 * sv.dict[k][3])
                      = PostingBytes(index.inverted[sv.dict[k][1]])
        /\ \A j, k \in DOMAIN sv.dict :
               j # k => \/ sv.dict[j][2] + 8 * sv.dict[j][3] <= sv.dict[k][2]
                        \/ sv.dict[k][2] + 8 * sv.dict[k][3] <= sv.dict[j][2]

\* A file with the posting lists of several words, one of two postings.
C22_Witness ==
    /\ Saved
    /\ Len(sv.dict) >= 3
    /\ \E k \in DOMAIN sv.dict : sv.dict[k][3] = 2
    /\ DocsEnd > 4

(***************************************************************************)
(* Properties of load_index                                                *)
(***************************************************************************)
\* The dict_offset in the footer of a file of 8 bytes or more.
FooterOf(file) == U64At(file, Len(file) - 8)

\* C7: load_index neither panics nor returns an index for a file shorter
\* than 8 bytes or a footer beyond the file length minus 8, it never panics
\* on any file, every dictionary entry of an index it returns lies inside
\* the mapped file, and get_postings on such an index never reads outside
\* the mapped file.
C7_CorruptRejected ==
    /\ loaded.outcome # "panic"
    /\ (loaded.outcome # "none"
           /\ (Len(final.data) < 8 \/ FooterOf(final.data) > Len(final.data) - 8))
          => loaded.outcome = "err"
    /\ loaded.outcome = "ok" =>
          \A w \in DOMAIN Midx.inverted_dict : InMap(Midx, Midx.inverted_dict[w])
    /\ gp.res.outcome # "panic"

(***************************************************************************)
(* Properties of the loop of search                                        *)
(***************************************************************************)
\* The idf of the token of each pass that found the document, summed.
IdfOfPasses(d) ==
    SeqSum([k \in DOMAIN sq.iters |->
               IF d \in DOMAIN sq.iters[k].posts
               THEN TokenIdfs(sq.tokens, Midx)[sq.iters[k].token] ELSE 0])

\* C14: what a pass adds to doc_matched_idf[doc] is the idf of the token of
\* that pass, so a document's matched idf is the sum of idf(t) over the
\* tokens t whose token_posts contain it.
C14_MatchedIdfOfSameToken ==
    LoopOver =>
        \A d \in DOMAIN sq.doc_matched_idf : sq.doc_matched_idf[d] = IdfOfPasses(d)

\* The scores the exact lookup and the prefix expansion gave, the documents
\* of the description pad at 0.
PaddedFirst(it, d) == IF d \in DOMAIN it.first THEN it.first[d] ELSE 0

\* The halved postings of the words at edit distance at most 1, summed.
FuzzyScore(it, d) ==
    SetSum([w \in FuzzyWords(Midx, it.token) |->
               SeqSum([i \in DOMAIN PostingsOf(Midx, w) |->
                          IF PostingsOf(Midx, w)[i][1] = d
                          THEN MulDiv(PostingsOf(Midx, w)[i][2], 500, 1000) ELSE 0])],
           FuzzyWords(Midx, it.token))

\* Whether the exact lookup and the prefix expansion of a pass gave nothing
\* and its token has FUZZY_MIN_LEN characters.
NothingFound(it) == DOMAIN it.first = {} /\ Len(it.token) >= 4

C15_SameQuerySameResult ==
    sq.spc = "done" =>
        \A i \in DOMAIN answers :
            answers[i].query = sq.query => answers[i].result = sq.result

(***************************************************************************)
(* Properties of the text functions                                        *)
(***************************************************************************)
RECURSIVE Levenshtein(_, _)
\* The Levenshtein distance of a and b, by its recurrence on the first
\* characters.
Levenshtein(a, b) ==
    IF a = "" THEN Len(b)
    ELSE IF b = "" THEN Len(a)
    ELSE IF Head(a) = Head(b) THEN Levenshtein(Tail(a), Tail(b))
    ELSE 1 + Min(Levenshtein(Tail(a), Tail(b)),
                 Min(Levenshtein(Tail(a), b), Levenshtein(a, Tail(b))))

EditReturned == tc.fn = "edit_distance" /\ tc.called

\* C11 as stated: edit_distance(a, b, k) <= k iff the Levenshtein distance
\* of a and b is <= k, and when the distance is greater than k the value
\* returned is exactly k + 1.
C11_ExactlyKPlusOne ==
    EditReturned =>
        /\ tc.dist <= tc.k <=> Levenshtein(tc.a, tc.b) <= tc.k
        /\ Levenshtein(tc.a, tc.b) > tc.k => tc.dist = tc.k + 1

\* C11 amended: edit_distance(a, b, k) <= k iff the Levenshtein distance of
\* a and b is <= k, and when the distance is greater than k the value
\* returned is k + 1 or the distance itself.
C11_BoundedDistance ==
    EditReturned =>
        /\ tc.dist <= tc.k <=> Levenshtein(tc.a, tc.b) <= tc.k
        /\ Levenshtein(tc.a, tc.b) > tc.k
               => tc.dist \in {tc.k + 1, Levenshtein(tc.a, tc.b)}

\* A call that no row stops early although the distance is beyond k + 1.
C11_Witness ==
    /\ EditReturned
    /\ Levenshtein(tc.a, tc.b) > tc.k + 1
    /\ tc.dist = Levenshtein(tc.a, tc.b)

TokenizeReturned == tc.fn = "tokenize" /\ tc.called

\* The lowercased pieces of the text that are not stop words.
KeptPieces(text) ==
    {i \in DOMAIN Pieces(text) : ~is_stop_word(to_lowercase(Pieces(text)[i]))}

\* C12 as stated: no element of the sequence tokenize returns is a stop
\* word.
C12_NoStopWordReturned ==
    TokenizeReturned => \A i \in DOMAIN tc.tokens : ~is_stop_word(tc.tokens[i])

\* C12 amended: every element of the sequence tokenize returns is the stem
\* of a lowercased piece of the text that is not a stop word, and there are
\* no more elements than such pieces; the stem itself can be a stop word.
C12_StemsOfKeptPieces ==
    TokenizeReturned =>
        /\ \A i \in DOMAIN tc.tokens :
               \E j \in KeptPieces(tc.text) :
                   tc.tokens[i] = stem(to_lowercase(Pieces(tc.text)[j]))
        /\ Len(tc.tokens) <= Cardinality(KeptPieces(tc.text))

\* A text with a stop word and another word, of which a token is returned.
C12_Witness ==
    /\ TokenizeReturned
    /\ \E i \in DOMAIN Pieces(tc.text) : is_stop_word(to_lowercase(Pieces(tc.text)[i]))
    /\ tc.tokens # <<>>

(***************************************************************************)
(* Properties of parse_doc and crawl on one file                           *)
(***************************************************************************)
\* The last header line before line i, 0 when there is none.
LastHeader(lines, i) ==
    LET hs == {j \in 1..(i - 1) : is_header(trim(lines[j]))}
    IN IF hs = {} THEN 0 ELSE CHOOSE j \in hs : \A h \in hs : h <= j

\* The non-empty non-header lines under a NAME header.
NameSectionLines(lines) ==
    {i \in DOMAIN lines :
        /\ ~is_header(trim(lines[i]))
        /\ trim(lines[i]) # ""
        /\ LastHeader(lines, i) > 0
        /\ trim(lines[LastHeader(lines, i)]) = "NAME"}

\* The first of them.
FirstNameLine(lines) ==
    CHOOSE i \in NameSectionLines(lines) : \A j \in NameSectionLines(lines) : i <= j

\* The tokens line i gives to a field.
LineTokens(lines, i) ==
    IF NameSectionLines(lines) # {} /\ i = FirstNameLine(lines)
    THEN tokenize(parse_name_line(trim(lines[i])).desc)
    ELSE tokenize(lines[i])

HasTokens(lines) == \E i \in DOMAIN lines : LineTokens(lines, i) # <<>>

Crawled == pd.ppc = "crawled"

Dropped == pd.out = NoDoc /\ temp.data = <<>> /\ cs.total_docs = 0

\* C13 as stated: a rendered document with no NAME line and a filename
\* base of length <= 1 is dropped: parse_doc returns None, crawl writes no
\* record for it and does not count it.
C13_NoNameShortBaseDropped ==
    (/\ Crawled
     /\ pd.page.rendered
     /\ NameSectionLines(pd.page.lines) = {}
     /\ Len(FileBase(pd.page.fname)) <= 1) => Dropped

\* C13 amended: a rendered document is dropped exactly when none of its
\* lines gives a token; one with tokens, no NAME line and a filename base
\* of length <= 1 is written with an empty cmd_name and counted.
C13_DroppedIffNoTokens ==
    (Crawled /\ pd.page.rendered) =>
        /\ Dropped <=> ~HasTokens(pd.page.lines)
        /\ (/\ HasTokens(pd.page.lines)
            /\ NameSectionLines(pd.page.lines) = {}
            /\ Len(FileBase(pd.page.fname)) <= 1)
               => /\ Len(temp.data) = 1
                  /\ temp.data[1].cmd_name = ""
                  /\ temp.data[1].fname = pd.page.fname
                  /\ cs.total_docs = 1

\* A page with tokens, no NAME line and a one-letter base has been crawled.
C13_Witness ==
    /\ Crawled
    /\ pd.page.rendered
    /\ HasTokens(pd.page.lines)
    /\ NameSectionLines(pd.page.lines) = {}
    /\ Len(FileBase(pd.page.fname)) <= 1
    /\ Len(temp.data) = 1

\* The line the last pass of the loop took.
LastLine == pd.page.lines[pd.pos]

AfterHeader == pd.pos > 0 /\ is_header(trim(LastLine))

\* C16 as stated: a header line leaves name_desc_tf, synopsis_tf, body_tf
\* and the three field lengths unchanged.
C16_HeaderGivesNoTokens ==
    AfterHeader =>
        /\ pd.acc.name_desc_tf = pd.before.name_desc_tf
        /\ pd.acc.synopsis_tf = pd.before.synopsis_tf
        /\ pd.acc.body_tf = pd.before.body_tf
        /\ pd.acc.name_desc_len = pd.before.name_desc_len
        /\ pd.acc.synopsis_len = pd.before.synopsis_len
        /\ pd.acc.body_len = pd.before.body_len

\* C16 amended: a header line leaves name_desc_tf and name_desc_len
\* unchanged; its tokens are counted in synopsis_tf and synopsis_len when it
\* starts with SYNOPSIS and in body_tf and body_len otherwise, the other of
\* the two fields unchanged.
C16_HeaderTokensInItsSection ==
    AfterHeader =>
        /\ pd.acc.name_desc_tf = pd.before.name_desc_tf
        /\ pd.acc.name_desc_len = pd.before.name_desc_len
        /\ IF starts_with(trim(LastLine), "SYNOPSIS")
           THEN /\ pd.acc.synopsis_tf = TfAdd(pd.before.synopsis_tf, tokenize(LastLine))
                /\ pd.acc.synopsis_len = pd.before.synopsis_len + Len(tokenize(LastLine))
                /\ pd.acc.body_tf = pd.before.body_tf
                /\ pd.acc.body_len = pd.before.body_len
           ELSE /\ pd.acc.body_tf = TfAdd(pd.before.body_tf, tokenize(LastLine))
                /\ pd.acc.body_len = pd.before.body_len + Len(tokenize(LastLine))
                /\ pd.acc.synopsis_tf = pd.before.synopsis_tf
                /\ pd.acc.synopsis_len = pd.before.synopsis_len

\* The header NAME has been counted in the body.
C16_Witness ==
    /\ AfterHeader
    /\ trim(LastLine) = "NAME"
    /\ pd.acc.body_len = pd.before.body_len + 1

\* Whether the last pass set one of the fields of the NAME line.
NameFieldsSet ==
    \/ pd.acc.cmd_name # pd.before.cmd_name
    \/ pd.acc.name_desc_raw # pd.before.name_desc_raw
    \/ pd.acc.name_desc_tf # pd.before.name_desc_tf
    \/ pd.acc.name_desc_len # pd.before.name_desc_len

\* C17: only the first non-empty non-header line of a Name section is taken
\* as the NAME line; every later non-header line of a Name section is
\* counted in the body and never in the description or the synopsis.
C17_OneNameLine ==
    pd.pos > 0 =>
        /\ NameFieldsSet =>
               /\ NameSectionLines(pd.page.lines) # {}
               /\ pd.pos = FirstNameLine(pd.page.lines)
        /\ (pd.pos \in NameSectionLines(pd.page.lines)
                /\ pd.pos = FirstNameLine(pd.page.lines))
               => /\ pd.acc.name_desc_raw = parse_name_line(trim(LastLine)).desc
                  /\ pd.acc.name_desc_tf = TfAdd(EmptyMap, tokenize(pd.acc.name_desc_raw))
        /\ (pd.pos \in NameSectionLines(pd.page.lines)
                /\ pd.pos # FirstNameLine(pd.page.lines))
               => /\ pd.acc.body_tf = TfAdd(pd.before.body_tf, tokenize(LastLine))
                  /\ pd.acc.body_len = pd.before.body_len + Len(tokenize(LastLine))
                  /\ pd.acc.name_desc_tf = pd.before.name_desc_tf
                  /\ pd.acc.name_desc_len = pd.before.name_desc_len
                  /\ pd.acc.synopsis_tf = pd.before.synopsis_tf
                  /\ pd.acc.synopsis_len = pd.before.synopsis_len

\* A line with tokens of a second Name section, after the NAME line was
\* taken in the first.
C17_Witness ==
    /\ pd.pos \in NameSectionLines(pd.page.lines)
    /\ LastHeader(pd.page.lines, pd.pos) > FirstNameLine(pd.page.lines)
    /\ tokenize(LastLine) # <<>>
    /\ pd.acc.body_len > pd.before.body_len

(***************************************************************************)
(* Properties of the RateLimiter                                           *)
(***************************************************************************)
\* The calls of check for the key that returned true at a time from t up
\* to, not including, t + 10.
AllowedFrom(key, t) ==
    SetSum(rl.log[key], {u \in TimePoints : t <= u /\ u < t + 10})

\* C23: for every key, at most 30 calls of check return true within any
\* interval of 10 seconds.
C23_AtMost30In10Seconds ==
    \A key \in RateKeys : \A t \in TimePoints : AllowedFrom(key, t) <= 30

=============================================================================
